---- MODULE Spec2Model ----
(***************************************************************************)
(* The Customer CRUD front ends of the training repository, all working on *)
(* the one SQLite table `customers` of customers.db:                       *)
(*   flask   - day3/examples/ex03.py   (Flask REST API)                    *)
(*   restx   - day3/examples/ex04.py   (Flask-RESTx REST API)              *)
(*   minimal - day3/myworkspace/ex05.py (minimal REST endpoint)            *)
(*   console - day3/examples/ex02.py   (menu application)                  *)
(*   script  - day3/myworkspace/ex03.py (workspace console functions)      *)
(* A step of the model is one whole request handler (or console            *)
(* function); `req` and `resp` hold the request it served and the response *)
(* it produced until the response is delivered, `sess` the sessions the    *)
(* handler opened and closed while it served the request.  `workers` and   *)
(* `lock` belong to the specification of concurrent creates, in which the  *)
(* steps of a handler are interleaved with those of other requests.        *)
(* The other programs of the repository have their own variables:          *)
(*   imp      - a bulk import taken one row at a time, with the table as   *)
(*              the importing connection sees it (day3 ex02.py, ex03.py,   *)
(*              day2/myworkspace/add_customer_records.py)                  *)
(*   console  - the menu loop of day3/examples/ex02.py                     *)
(*   threads, mutex, bucket, main - the threading demonstrations           *)
(*              day2/myworkspace/ex02.py and ex03.py                       *)
(*   number, words - number_to_words of day1/myworkspace/myutils.py        *)
(*   exported - the csv_data an API client has kept from an export         *)
(***************************************************************************)
EXTENDS Integers, Sequences, FiniteSets, TLC

VARIABLES customers, req, resp, sess, workers, lock,
          imp, console, threads, mutex, bucket, main, number, words, exported

\* the variables of the programs that are not request handlers
import_vars == <<imp>>
menu_vars == <<console>>
thread_vars == <<threads, mutex, bucket, main>>
words_vars == <<number, words>>
client_vars == <<exported>>

vars == <<customers, req, resp, sess, workers, lock,
          imp, console, threads, mutex, bucket, main, number, words, exported>>

(***************************************************************************)
(* Bounds of the model.                                                    *)
(***************************************************************************)
\* the largest primary key the table may hold
MaxId == 2
\* the largest number of CSV rows (header included) in one bulk import, in
\* the specification of the bulk imports alone
MaxRows == 3
\* the same, in the specification of all front ends together
ShortRows == 2

\* requests handled at the same time in the specification of concurrent
\* creates
MaxWorkers == 2

(***************************************************************************)
(* Values.  Null is Python's None / SQL NULL, Num a JSON number; every     *)
(* other value is a string.                                                *)
(***************************************************************************)
Null == "<null>"
Num == "<42>"
NonStrings == {Null, Num}

Names == {"", "n"}
Emails == {"a", "b"}
Phones == {"1", "2"}
Cities == {"", "X"}
BodyCities == {"X"}
Blank == " "

Fields == {"name", "email", "phone", "city"}

FieldValues(f) ==
    CASE f = "name" -> Names
      [] f = "email" -> Emails
      [] f = "phone" -> Phones
      [] f = "city" -> BodyCities

\* the JSON objects a client may send: any subset of the four keys
Bodies ==
    UNION { { d \in [K -> Names \cup Emails \cup Phones \cup Cities] :
                \A k \in K : d[k] \in FieldValues(k) } : K \in SUBSET Fields }

Ids == 1..MaxId

(***************************************************************************)
(* The table: Customer model and the SQLite constraints it declares.       *)
(***************************************************************************)
\* the constructor with email and phone exchanged
CustomerSwapped(name, email, phone, city) ==
    [name |-> name, email |-> phone, phone |-> email, city |-> city]

\* class Customer: the four data columns of a row (id is the key of the table)
Customer(name, email, phone, city) ==
    [name |-> name, email |-> email, phone |-> phone, city |-> city]

\* Customer.to_dict / get_as_dict
to_dict(tbl, id) ==
    [id |-> id, name |-> tbl[id].name, email |-> tbl[id].email,
     phone |-> tbl[id].phone, city |-> tbl[id].city]

Max(S) == CHOOSE x \in S : \A y \in S : y <= x

\* id = Column(Integer, primary_key=True): SQLite gives a new row the
\* largest rowid in the table plus one
NewId(tbl) == IF DOMAIN tbl = {} THEN 1 ELSE Max(DOMAIN tbl) + 1

\* the constraints a row violates when written at key `id`; `insert` tells
\* an INSERT (the key must be free) from an UPDATE of row `id`
ViolationsNoPhone(tbl, id, row, insert) ==
    {c \in {"customers.id"} : insert /\ id \in DOMAIN tbl}
    \cup {c \in {"customers.email"} :
            \E j \in DOMAIN tbl \ {id} : tbl[j].email = row.email}
    \cup {c \in {"NOT NULL"} : Null \in {row.name, row.email, row.phone}}

\* uniqueness checked against every row, the updated one included
ViolationsCountingSelf(tbl, id, row, insert) ==
    {c \in {"customers.id"} : insert /\ id \in DOMAIN tbl}
    \cup {c \in {"customers.email"} : \E j \in DOMAIN tbl : tbl[j].email = row.email}
    \cup {c \in {"customers.phone"} : \E j \in DOMAIN tbl : tbl[j].phone = row.phone}
    \cup {c \in {"NOT NULL"} : Null \in {row.name, row.email, row.phone}}

Violations(tbl, id, row, insert) ==
    {c \in {"customers.id"} : insert /\ id \in DOMAIN tbl}
    \cup {c \in {"customers.email"} :
            \E j \in DOMAIN tbl \ {id} : tbl[j].email = row.email}
    \cup {c \in {"customers.phone"} :
            \E j \in DOMAIN tbl \ {id} : tbl[j].phone = row.phone}
    \cup {c \in {"NOT NULL"} : Null \in {row.name, row.email, row.phone}}

\* the table with `row` written at key `id` (session.add / attribute
\* assignment followed by the flush of session.commit)
Write(tbl, id, row) ==
    [j \in DOMAIN tbl \cup {id} |-> IF j = id THEN row ELSE tbl[j]]

\* session.delete(customer); session.commit()
Remove(tbl, id) == [j \in DOMAIN tbl \ {id} |-> tbl[j]]

\* session.rollback(): the failed statement leaves the table as it was
RollbackKeepsPending(before, pending) == pending

Rollback(before, pending) == before

\* str(e) of the IntegrityError SQLite raises for constraint c
IntegrityMessage(c) ==
    IF c = "NOT NULL" THEN "NOT NULL constraint failed"
    ELSE "UNIQUE constraint failed: " \o c

(***************************************************************************)
(* Requests and responses.                                                 *)
(***************************************************************************)
\* the sessions of one request: who owns the session it works with, how many
\* it opened and how many it closed
NoSession == [owner |-> "none", opened |-> 0, closed |-> 0]

\* session = get_session(): a new Session() of this request
get_session == [owner |-> "request", opened |-> 1, closed |-> 0]

\* a handler whose finally clause is missing
close_skipped(s) == s

\* finally: session.close()
close(s) == [s EXCEPT !.closed = @ + 1]

\* with Session() as session: ... ; leaving the block closes the session
with_Session == close(get_session)

\* ex02.py works with the one session made when the module is loaded and
\* closes it only when the program exits
ModuleSession == [owner |-> "module", opened |-> 0, closed |-> 0]

Idle == [op |-> "idle"]

Request(variant, op, id, json, data) ==
    [op |-> op, variant |-> variant, id |-> id, json |-> json, data |-> data]

\* jsonify({...}), status
Response(status, error, customer) ==
    [status |-> status, error |-> error, customer |-> customer]

Get(data, k) == IF k \in DOMAIN data THEN data[k] ELSE Null

\* bool(v) for the values of the model: None and '' are falsy
Truthy(v) == v # Null /\ v # ""

\* isinstance(v, str)
IsStr(v) == v \notin NonStrings

(***************************************************************************)
(* ex03.py: the Flask API.                                                 *)
(***************************************************************************)
\* the validation with the `not update or` tests left out: the three fields
\* are required in an update as well
validate_required_always(data, update) ==
    LET Check(k, msg) ==
            IF ~Truthy(Get(data, k)) \/ ~IsStr(Get(data, k))
            THEN <<msg>> ELSE <<>>
    IN  Check("name", "Name is required and must be a string")
        \o Check("email", "Email is required and must be a string")
        \o Check("phone", "Phone is required and must be a string")
        \o (IF "city" \in DOMAIN data /\ data["city"] # Null /\ ~IsStr(data["city"])
            THEN <<"City must be a string if provided">> ELSE <<>>)

validate_customer_data(data, update) ==
    LET Check(k, msg) ==
            IF (~update \/ k \in DOMAIN data)
               /\ (~Truthy(Get(data, k)) \/ ~IsStr(Get(data, k)))
            THEN <<msg>> ELSE <<>>
    IN  Check("name", "Name is required and must be a string")
        \o Check("email", "Email is required and must be a string")
        \o Check("phone", "Phone is required and must be a string")
        \o (IF "city" \in DOMAIN data /\ data["city"] # Null /\ ~IsStr(data["city"])
            THEN <<"City must be a string if provided">> ELSE <<>>)

\* the classification with the two substring tests exchanged
ConflictErrorSwapped(c) ==
    IF c = "customers.phone" THEN "Email address already exists"
    ELSE IF c = "customers.email" THEN "Phone number already exists"
    ELSE IntegrityMessage(c)

\* the except IntegrityError branch shared by create and update
ConflictError(c) ==
    IF c = "customers.email" THEN "Email address already exists"
    ELSE IF c = "customers.phone" THEN "Phone number already exists"
    ELSE IntegrityMessage(c)

create_customer(json, data) ==
    /\ sess' = (IF json /\ validate_customer_data(data, FALSE) = <<>>
                THEN close(get_session) ELSE NoSession)
    /\ req' = Request("flask", "create", 0, json, data)
    /\ IF ~json
       THEN /\ resp' = Response(400, <<"Request must be JSON">>, Null)
            /\ UNCHANGED customers
       ELSE IF validate_customer_data(data, FALSE) # <<>>
       THEN /\ resp' = Response(400, validate_customer_data(data, FALSE), Null)
            /\ UNCHANGED customers
       ELSE LET new_customer == Customer(data["name"], data["email"], data["phone"],
                                         IF "city" \in DOMAIN data THEN data["city"] ELSE "")
                id == NewId(customers)
                failed == Violations(customers, id, new_customer, TRUE)
                pending == Write(customers, id, new_customer)
            IN  IF failed = {}
                THEN /\ customers' = pending
                     /\ resp' = Response(201, <<>>, to_dict(pending, id))
                ELSE /\ customers' = Rollback(customers, pending)
                     /\ \E c \in failed :
                            resp' = Response(409, <<ConflictError(c)>>, Null)

\* customer = session.query(Customer).filter_by(id=...).first() and the
\* response built from it: 404 when there is none, else 200 with to_dict()
FindResponse(tbl, id, message) ==
    IF id \notin DOMAIN tbl
    THEN Response(404, <<message>>, Null)
    ELSE Response(200, <<>>, to_dict(tbl, id))

get_customer(customer_id) ==
    /\ sess' = close(get_session)
    /\ req' = Request("flask", "get", customer_id, TRUE, <<>>)
    /\ resp' = FindResponse(customers, customer_id, "Customer not found")
    /\ UNCHANGED customers

\* if 'name' in data: customer.name = data['name'] ... (one test per field)
ApplyFieldsReplacing(row, data) ==
    Customer(Get(data, "name"), Get(data, "email"), Get(data, "phone"), Get(data, "city"))

ApplyFields(row, data) ==
    Customer(IF "name" \in DOMAIN data THEN data["name"] ELSE row.name,
             IF "email" \in DOMAIN data THEN data["email"] ELSE row.email,
             IF "phone" \in DOMAIN data THEN data["phone"] ELSE row.phone,
             IF "city" \in DOMAIN data THEN data["city"] ELSE row.city)

update_customer(customer_id, json, data) ==
    /\ sess' = (IF json /\ validate_customer_data(data, TRUE) = <<>>
                THEN close(get_session) ELSE NoSession)
    /\ req' = Request("flask", "update", customer_id, json, data)
    /\ IF ~json
       THEN /\ resp' = Response(400, <<"Request must be JSON">>, Null)
            /\ UNCHANGED customers
       ELSE IF validate_customer_data(data, TRUE) # <<>>
       THEN /\ resp' = Response(400, validate_customer_data(data, TRUE), Null)
            /\ UNCHANGED customers
       ELSE IF customer_id \notin DOMAIN customers
       THEN /\ resp' = Response(404, <<"Customer not found">>, Null)
            /\ UNCHANGED customers
       ELSE LET customer == ApplyFields(customers[customer_id], data)
                failed == Violations(customers, customer_id, customer, FALSE)
                pending == Write(customers, customer_id, customer)
            IN  IF failed = {}
                THEN /\ customers' = pending
                     /\ resp' = Response(200, <<>>, to_dict(pending, customer_id))
                ELSE /\ customers' = Rollback(customers, pending)
                     /\ \E c \in failed :
                            resp' = Response(409, <<ConflictError(c)>>, Null)

delete_customer(customer_id) ==
    /\ sess' = close(get_session)
    /\ req' = Request("flask", "delete", customer_id, TRUE, <<>>)
    /\ IF customer_id \notin DOMAIN customers
       THEN /\ resp' = Response(404, <<"Customer not found">>, Null)
            /\ UNCHANGED customers
       ELSE /\ customers' = Remove(customers, customer_id)
            /\ resp' = Response(200, <<>>, Null)

(***************************************************************************)
(* CSV bulk import (ex03.py bulk_import, ex04.py CustomerBulkImport.post). *)
(* The request carries the rows csv.reader yields.                         *)
(***************************************************************************)
\* str.lower() on the column names the model uses
\* lower() that leaves capitals as they are
LowerKeepsCase(s) == s

Lower(s) ==
    CASE s = "Name" -> "name"
      [] s = "Email" -> "email"
      [] s = "Phone" -> "phone"
      [] s = "City" -> "city"
      [] s = "EMAIL" -> "email"
      [] s = "Y" -> "y"
      [] OTHER -> s

Min(a, b) == IF a <= b THEN a ELSE b

\* row_data[header[i].lower()] = value, for i < len(header): a later column
\* of the same name overwrites an earlier one
RowData(header, row) ==
    LET n == Min(Len(header), Len(row))
        keys == {Lower(header[i]) : i \in 1..n}
    IN  [k \in keys |-> row[Max({i \in 1..n : Lower(header[i]) = k})]]

FailedRow(row, error) == [row |-> row, error |-> error]

\* the iteration with `success_count += 1` placed before session.commit()
ImportRowCountingAttempts(header, row, st) ==
    IF Len(row) < 3
    THEN [st EXCEPT !.failed_rows =
              Append(@, FailedRow(row, "Row must have at least name, email, and phone"))]
    ELSE LET row_data == RowData(header, row)
         IN  IF ~({"name", "email", "phone"} \subseteq DOMAIN row_data)
             THEN [st EXCEPT !.failed_rows =
                       Append(@, FailedRow(row, "Missing required fields"))]
             ELSE LET new_customer ==
                          Customer(row_data["name"], row_data["email"], row_data["phone"],
                                   IF "city" \in DOMAIN row_data THEN row_data["city"] ELSE "")
                      id == NewId(st.tbl)
                      pending == Write(st.tbl, id, new_customer)
                  IN  IF Violations(st.tbl, id, new_customer, TRUE) = {}
                      THEN [st EXCEPT !.tbl = pending, !.success_count = @ + 1]
                      ELSE [st EXCEPT !.tbl = Rollback(st.tbl, pending),
                                      !.success_count = @ + 1,
                                      !.failed_rows = Append(@, FailedRow(row, "IntegrityError"))]

\* one iteration of `for row in data_rows`; st is the table as committed so
\* far with success_count and failed_rows
ImportRow(header, row, st) ==
    IF Len(row) < 3
    THEN [st EXCEPT !.failed_rows =
              Append(@, FailedRow(row, "Row must have at least name, email, and phone"))]
    ELSE LET row_data == RowData(header, row)
         IN  IF ~({"name", "email", "phone"} \subseteq DOMAIN row_data)
             THEN [st EXCEPT !.failed_rows =
                       Append(@, FailedRow(row, "Missing required fields"))]
             ELSE LET new_customer ==
                          Customer(row_data["name"], row_data["email"], row_data["phone"],
                                   IF "city" \in DOMAIN row_data THEN row_data["city"] ELSE "")
                      id == NewId(st.tbl)
                      pending == Write(st.tbl, id, new_customer)
                  IN  IF Violations(st.tbl, id, new_customer, TRUE) = {}
                      THEN [st EXCEPT !.tbl = pending, !.success_count = @ + 1]
                      ELSE [st EXCEPT !.tbl = Rollback(st.tbl, pending),
                                      !.failed_rows = Append(@, FailedRow(row, "IntegrityError"))]

\* the loop with a `break` at the first failed row
RECURSIVE ImportRowsAborting(_, _, _)
ImportRowsAborting(header, data_rows, st) ==
    IF data_rows = <<>> \/ st.failed_rows # <<>> THEN st
    ELSE ImportRowsAborting(header, Tail(data_rows), ImportRow(header, Head(data_rows), st))

\* for row in data_rows: ...
RECURSIVE ImportRows(_, _, _)
ImportRows(header, data_rows, st) ==
    IF data_rows = <<>> THEN st
    ELSE ImportRows(header, Tail(data_rows), ImportRow(header, Head(data_rows), st))

\* data.get('has_header', False): a header row only when one is announced
HasHeaderDefaultFalse(has_key, value) == has_key /\ value

\* data.get('has_header', True)
HasHeader(has_key, value) == IF has_key THEN value ELSE TRUE

BulkResponse(status, success, error, st) ==
    [status |-> status, error |-> error, success |-> success,
     success_count |-> st.success_count, failed_rows |-> st.failed_rows]

NoImport == [tbl |-> <<>>, success_count |-> 0, failed_rows |-> <<>>]

\* the part of both API bulk imports after the request body is accepted;
\* success is the 'success' value of the completed import: True in ex03.py,
\* success_count > 0 in ex04.py
ImportCsv(variant, rows, has_key, value) ==
    LET has_header == HasHeader(has_key, value)
        header == IF has_header THEN rows[1] ELSE <<"name", "email", "phone", "city">>
        data_rows == IF has_header THEN Tail(rows) ELSE rows
        st == ImportRows(header, data_rows,
                         [tbl |-> customers, success_count |-> 0, failed_rows |-> <<>>])
    IN  IF rows = <<>>
        THEN /\ resp' = BulkResponse(400, FALSE, <<"CSV data is empty">>, NoImport)
             /\ sess' = NoSession
             /\ UNCHANGED customers
        ELSE IF Len(header) < 3
        THEN /\ resp' = BulkResponse(400, FALSE,
                            <<"CSV must have at least name, email, and phone columns">>, NoImport)
             /\ sess' = NoSession
             /\ UNCHANGED customers
        ELSE /\ customers' = st.tbl
             /\ sess' = close(get_session)
             /\ resp' = BulkResponse(IF st.success_count > 0 THEN 200 ELSE 400,
                                     IF variant = "flask" THEN TRUE
                                     ELSE st.success_count > 0,
                                     <<>>, st)

BulkRequest(variant, json, has_csv, rows, has_key, has_header) ==
    Request(variant, "bulk", 0, json,
            [has_csv |-> has_csv, csv_data |-> rows, has_header_key |-> has_key,
             has_header |-> has_header])

bulk_import(json, has_csv, rows, has_key, has_header) ==
    /\ req' = BulkRequest("flask", json, has_csv, rows, has_key, has_header)
    /\ IF ~json
       THEN /\ resp' = BulkResponse(400, FALSE, <<"Request must be JSON">>, NoImport)
            /\ sess' = NoSession
            /\ UNCHANGED customers
       ELSE IF ~has_csv
       THEN /\ resp' = BulkResponse(400, FALSE, <<"CSV data is required">>, NoImport)
            /\ sess' = NoSession
            /\ UNCHANGED customers
       ELSE ImportCsv("flask", rows, has_key, has_header)

(***************************************************************************)
(* ex04.py: the Flask-RESTx API.  Api(validate=True) with @expect(model)   *)
(* rejects a payload that lacks a required key before the handler runs.    *)
(***************************************************************************)
\* customer_input_model: name, email and phone are required=True
MissingRequired(data) == {"name", "email", "phone"} \ DOMAIN data

\* api.abort(404, ...) inside `try:` raises an HTTPException, which is an
\* Exception: the handler's `except Exception as e` clause catches it, rolls
\* back and calls api.abort(500, str(e))
AbortInsideTry(message) == Response(500, <<message>>, Null)

CustomerList_post(data) ==
    /\ sess' = (IF MissingRequired(data) = {} THEN close(get_session) ELSE NoSession)
    /\ req' = Request("restx", "create", 0, TRUE, data)
    /\ IF MissingRequired(data) # {}
       THEN /\ resp' = Response(400, <<"Input payload validation failed">>, Null)
            /\ UNCHANGED customers
       ELSE LET new_customer == Customer(data["name"], data["email"], data["phone"],
                                         IF "city" \in DOMAIN data THEN data["city"] ELSE "")
                id == NewId(customers)
                failed == Violations(customers, id, new_customer, TRUE)
                pending == Write(customers, id, new_customer)
            IN  IF failed = {}
                THEN /\ customers' = pending
                     /\ resp' = Response(201, <<>>, to_dict(pending, id))
                ELSE /\ customers' = Rollback(customers, pending)
                     /\ \E c \in failed :
                            resp' = Response(409, <<ConflictError(c)>>, Null)

CustomerItem_get(id) ==
    /\ sess' = close(get_session)
    /\ req' = Request("restx", "get", id, TRUE, <<>>)
    /\ resp' = FindResponse(customers, id, "Customer not found")
    /\ UNCHANGED customers

CustomerItem_put(id, data) ==
    /\ sess' = close(get_session)
    /\ req' = Request("restx", "update", id, TRUE, data)
    /\ IF id \notin DOMAIN customers
       THEN /\ resp' = AbortInsideTry("404 Not Found")
            /\ UNCHANGED customers
       ELSE LET customer == ApplyFields(customers[id], data)
                failed == Violations(customers, id, customer, FALSE)
                pending == Write(customers, id, customer)
            IN  IF failed = {}
                THEN /\ customers' = pending
                     /\ resp' = Response(200, <<>>, to_dict(pending, id))
                ELSE /\ customers' = Rollback(customers, pending)
                     /\ \E c \in failed :
                            resp' = Response(409, <<ConflictError(c)>>, Null)

CustomerItem_delete(id) ==
    /\ sess' = close(get_session)
    /\ req' = Request("restx", "delete", id, TRUE, <<>>)
    /\ IF id \notin DOMAIN customers
       THEN /\ resp' = AbortInsideTry("404 Not Found")
            /\ UNCHANGED customers
       ELSE /\ customers' = Remove(customers, id)
            /\ resp' = Response(204, <<>>, Null)

CustomerBulkImport_post(has_csv, rows, has_key, has_header) ==
    /\ req' = BulkRequest("restx", TRUE, has_csv, rows, has_key, has_header)
    /\ IF ~has_csv
       THEN /\ resp' = BulkResponse(400, FALSE, <<"Input payload validation failed">>, NoImport)
            /\ sess' = NoSession
            /\ UNCHANGED customers
       ELSE ImportCsv("restx", rows, has_key, has_header)

(***************************************************************************)
(* myworkspace/ex05.py: the minimal REST endpoint.  client_id is the 'id'  *)
(* key of the request body, 0 when the body has none.                      *)
(***************************************************************************)
handle_create_customer(client_id, data) ==
    /\ sess' = (IF {"name", "email", "phone"} \subseteq DOMAIN data
                THEN with_Session ELSE NoSession)
    /\ req' = Request("minimal", "create", client_id, TRUE, data)
    /\ LET missing_fields == {"name", "email", "phone"} \ DOMAIN data
           c1 == Customer(Get(data, "name"), Get(data, "email"), Get(data, "phone"),
                          Get(data, "city"))
           id == IF client_id # 0 THEN client_id ELSE NewId(customers)
           failed == Violations(customers, id, c1, TRUE)
           pending == Write(customers, id, c1)
       IN  IF missing_fields # {}
           THEN /\ resp' = Response(400, <<"Missing fields">>, Null)
                /\ UNCHANGED customers
           ELSE IF failed = {}
           THEN /\ customers' = pending
                /\ resp' = Response(201, <<>>, to_dict(pending, id))
           ELSE /\ customers' = Rollback(customers, pending)
                /\ \E c \in failed :
                       resp' = Response(500, <<IntegrityMessage(c)>>, Null)

handle_get_customer_by_id(customer_id) ==
    /\ sess' = with_Session
    /\ req' = Request("minimal", "get", customer_id, TRUE, <<>>)
    /\ resp' = FindResponse(customers, customer_id, "No customer found")
    /\ UNCHANGED customers

(***************************************************************************)
(* ex02.py: the console menu application.  It keeps one module-level       *)
(* session; every function commits or rolls back before it returns.        *)
(* A console response is what the function prints, with status 0.          *)
(***************************************************************************)
\* str.strip() on the values of the model
Strip(s) == IF s = Blank THEN "" ELSE s

\* the id of the row with this email: filter_by(email=email).first()
ByEmail(tbl, email) == {j \in DOMAIN tbl : tbl[j].email = email}

ConsoleRequest(variant, op, id, lookup, confirm, data) ==
    [op |-> op, variant |-> variant, id |-> id, json |-> FALSE, data |-> data,
     lookup |-> lookup, confirm |-> confirm]

Prompted(name, email, phone, city) ==
    [name |-> name, email |-> email, phone |-> phone, city |-> city]

\* add_customer with no try block: the exception of a failed commit leaves
\* the function
add_customer_uncaught(name, email, phone, city) ==
    /\ sess' = ModuleSession
    /\ req' = ConsoleRequest("console", "create", 0, "", "", Prompted(name, email, phone, city))
    /\ LET new_customer == Customer(name, email, phone, city)
           id == NewId(customers)
       IN  IF Violations(customers, id, new_customer, TRUE) = {}
           THEN /\ customers' = Write(customers, id, new_customer)
                /\ resp' = Response(0, <<"Customer added successfully!">>, Null)
           ELSE /\ UNCHANGED customers
                /\ resp' = Response(0, <<"Traceback">>, Null)

add_customer(name, email, phone, city) ==
    /\ sess' = ModuleSession
    /\ req' = ConsoleRequest("console", "create", 0, "", "", Prompted(name, email, phone, city))
    /\ IF Strip(name) = ""
       THEN /\ resp' = Response(0, <<"Error: Name cannot be empty.">>, Null)
            /\ UNCHANGED customers
       ELSE IF Strip(email) = ""
       THEN /\ resp' = Response(0, <<"Error: Email cannot be empty.">>, Null)
            /\ UNCHANGED customers
       ELSE IF Strip(phone) = ""
       THEN /\ resp' = Response(0, <<"Error: Phone cannot be empty.">>, Null)
            /\ UNCHANGED customers
       ELSE LET new_customer == Customer(name, email, phone, city)
                id == NewId(customers)
                pending == Write(customers, id, new_customer)
            IN  IF Violations(customers, id, new_customer, TRUE) = {}
                THEN /\ customers' = pending
                     /\ resp' = Response(0, <<"Customer added successfully!">>, Null)
                ELSE /\ customers' = Rollback(customers, pending)
                     /\ resp' = Response(0, <<"Error adding customer">>, Null)

\* if name.strip(): customer.name = name ...: a blank answer keeps the value
NonBlank(answers) == [k \in {f \in DOMAIN answers : Strip(answers[f]) # ""} |-> answers[k]]

console_update_customer(email, name, new_email, phone, city) ==
    /\ sess' = ModuleSession
    /\ req' = ConsoleRequest("console", "update", 0, email, "",
                             Prompted(name, new_email, phone, city))
    /\ IF ByEmail(customers, email) = {}
       THEN /\ resp' = Response(0, <<"No customer found with email">>, Null)
            /\ UNCHANGED customers
       ELSE LET id == CHOOSE j \in ByEmail(customers, email) : TRUE
                customer == ApplyFields(customers[id],
                                        NonBlank(Prompted(name, new_email, phone, city)))
                pending == Write(customers, id, customer)
            IN  IF Violations(customers, id, customer, FALSE) = {}
                THEN /\ customers' = pending
                     /\ resp' = Response(0, <<"Customer updated successfully!">>, Null)
                ELSE /\ customers' = Rollback(customers, pending)
                     /\ resp' = Response(0, <<"Error updating customer">>, Null)

console_delete_customer(email, confirm) ==
    /\ sess' = ModuleSession
    /\ req' = ConsoleRequest("console", "delete", 0, email, confirm, <<>>)
    /\ IF ByEmail(customers, email) = {}
       THEN /\ resp' = Response(0, <<"No customer found with email">>, Null)
            /\ UNCHANGED customers
       ELSE IF Lower(confirm) = "y"
       THEN /\ customers' = Remove(customers, CHOOSE j \in ByEmail(customers, email) : TRUE)
            /\ resp' = Response(0, <<"Customer deleted successfully!">>, Null)
       ELSE /\ resp' = Response(0, <<"Deletion cancelled.">>, Null)
            /\ UNCHANGED customers

\* one iteration of `for line in lines`; line is line.split(',')
ConsoleImportLine(line, st) ==
    LET parts == [i \in 1..Len(line) |-> Strip(line[i])]
    IN  IF Len(parts) < 3
        THEN [st EXCEPT !.failed_rows = Append(@, FailedRow(line, "Invalid format in line"))]
        ELSE LET customer == Customer(parts[1], parts[2], parts[3],
                                      IF Len(parts) > 3 THEN parts[4] ELSE "")
                 id == NewId(st.tbl)
                 pending == Write(st.tbl, id, customer)
             IN  IF Violations(st.tbl, id, customer, TRUE) = {}
                 THEN [st EXCEPT !.tbl = pending, !.success_count = @ + 1]
                 ELSE [st EXCEPT !.tbl = Rollback(st.tbl, pending),
                                 !.failed_rows = Append(@, FailedRow(line, "Error importing line"))]

RECURSIVE ConsoleImportLines(_, _)
ConsoleImportLines(lines, st) ==
    IF lines = <<>> THEN st
    ELSE ConsoleImportLines(Tail(lines), ConsoleImportLine(Head(lines), st))

\* fail_count is the length of failed_rows
console_bulk_import(lines) ==
    /\ sess' = ModuleSession
    /\ req' = BulkRequest("console", FALSE, TRUE, lines, TRUE, FALSE)
    /\ LET st == ConsoleImportLines(lines, [tbl |-> customers, success_count |-> 0,
                                            failed_rows |-> <<>>])
       IN  IF lines = <<>>
           THEN /\ resp' = BulkResponse(0, FALSE, <<"No data entered.">>, NoImport)
                /\ UNCHANGED customers
           ELSE /\ customers' = st.tbl
                /\ resp' = BulkResponse(0, TRUE, <<"Import complete">>, st)

(***************************************************************************)
(* myworkspace/ex03.py: the workspace console functions, each in its own   *)
(* `with Session() as session` block.                                      *)
(***************************************************************************)
\* no validation and no except clause: a failed commit ends the program
\* with the exception, the with block having closed the session
accept_and_add_customer_data(name, email, phone, city) ==
    /\ sess' = with_Session
    /\ req' = ConsoleRequest("script", "create", 0, "", "", Prompted(name, email, phone, city))
    /\ LET c1 == Customer(name, email, phone, city)
           id == NewId(customers)
           pending == Write(customers, id, c1)
       IN  IF Violations(customers, id, c1, TRUE) = {}
           THEN /\ customers' = pending
                /\ resp' = Response(0, <<>>, Null)
           ELSE /\ customers' = Rollback(customers, pending)
                /\ resp' = Response(0, <<"Traceback">>, Null)

search_by_id_and_update(id_to_search, name, email, phone, city) ==
    /\ sess' = with_Session
    /\ req' = ConsoleRequest("script", "update", id_to_search, "", "",
                             Prompted(name, email, phone, city))
    /\ IF id_to_search \notin DOMAIN customers
       THEN /\ resp' = Response(0, <<"No customer data found for id">>, Null)
            /\ UNCHANGED customers
       ELSE LET c1 == ApplyFields(customers[id_to_search],
                                  NonBlank(Prompted(name, email, phone, city)))
                pending == Write(customers, id_to_search, c1)
            IN  IF Violations(customers, id_to_search, c1, FALSE) = {}
                THEN /\ customers' = pending
                     /\ resp' = Response(0, <<"Data updated successfully">>, Null)
                ELSE /\ customers' = Rollback(customers, pending)
                     /\ resp' = Response(0, <<"There was an error">>, Null)

search_by_email_and_delete(email_to_search, choice) ==
    /\ sess' = with_Session
    /\ req' = ConsoleRequest("script", "delete", 0, email_to_search, choice, <<>>)
    /\ IF ByEmail(customers, email_to_search) = {}
       THEN /\ resp' = Response(0, <<"No customer data found for email id">>, Null)
            /\ UNCHANGED customers
       ELSE IF choice = "yes"
       THEN /\ customers' = Remove(customers,
                                   CHOOSE j \in ByEmail(customers, email_to_search) : TRUE)
            /\ resp' = Response(0, <<"Deleted successfully!">>, Null)
       ELSE /\ resp' = Response(0, <<>>, Null)
            /\ UNCHANGED customers

(***************************************************************************)
(* The inputs the model draws requests from.                               *)
(***************************************************************************)
\* rows of a CSV text: name, email, phone and an optional city
DataRows ==
    { <<"n", "a", "1">>, <<"", "a", "2">>, <<"n", "b", "2", "X">>, <<"n", "a">> }

HeaderRows ==
    { <<"Name", "Email", "Phone", "City">>, <<"name", "mail", "phone">>,
      <<"name", "email">> }

MixedHeader == <<"EMAIL", "name", "Phone">>

DataSeqs(n) == UNION { [1..k -> DataRows] : k \in 0..n }

\* csv texts of at most n rows: with a header row and has_header true, or
\* without and false
CsvInputs(n) ==
    { [has_key |-> TRUE, has_header |-> FALSE, rows |-> r] : r \in DataSeqs(n) }
    \cup { [has_key |-> TRUE, has_header |-> TRUE, rows |-> <<h>> \o r] :
             h \in HeaderRows, r \in DataSeqs(n - 1) }

\* the csv texts of the bulk specification: those above, texts whose header
\* is in another order and another case, and texts sent without the
\* has_header key, with a header row or with data rows only
BulkCsvInputs(n) ==
    CsvInputs(n)
    \cup { [has_key |-> TRUE, has_header |-> TRUE, rows |-> <<MixedHeader>> \o r] :
             r \in DataSeqs(n - 1) }
    \cup { [has_key |-> FALSE, has_header |-> FALSE, rows |-> <<h>> \o r] :
             h \in {<<"Name", "Email", "Phone", "City">>, MixedHeader}, r \in DataSeqs(n - 1) }
    \cup { [has_key |-> FALSE, has_header |-> FALSE, rows |-> r] : r \in DataSeqs(n) \ {<<>>} }

\* lines typed at the console bulk import prompt, split at the commas
ConsoleLines(n) == DataSeqs(n) \cup { << <<Blank, "b", "2">> >> }

ConsoleNames == {Blank, "n"}
ConsoleEmails == Emails \cup {""}
ConsolePhones == Phones \cup {""}
Confirmations == {"y", "Y", "n", "yes"}

\* the response is sent and the front end waits for the next request
Deliver ==
    /\ req # Idle
    /\ req' = Idle
    /\ resp' = Idle
    /\ sess' = NoSession
    /\ UNCHANGED <<customers, workers, lock, import_vars, menu_vars, thread_vars, words_vars,
                 client_vars>>

InBounds == DOMAIN customers \subseteq Ids

\* the threads of the server that handle requests at the same time
Workers == 1..MaxWorkers

\* a thread that has not received its request
IdleWorker ==
    [pc |-> "idle", data |-> <<>>, id |-> 0, status |-> 0, error |-> <<>>,
     sess |-> NoSession]

\* no bulk import is running
NoRows == [variant |-> "none", pc |-> "idle", rows |-> <<>>, st |-> NoImport,
           inserted |-> {}]

\* the menu application has not been started
NotStarted == [pc |-> "off", choice |-> "", failed |-> FALSE, after_failure |-> FALSE]

\* the two threads of a demonstration before main() has created them
NoThreads == [t \in {1, 2} |-> [pc |-> "none", i |-> 0, words |-> <<>>]]

\* no threading demonstration has been started
NoMain == [demo |-> "none", pc |-> "off"]

\* the client has kept no export
NoExport == [taken |-> FALSE, csv_data |-> <<>>, customers |-> <<>>]

\* the empty table, no request, and no other program running
InitStore ==
    /\ customers = [j \in {} |-> Customer("", "", "", "")]
    /\ req = Idle
    /\ resp = Idle
    /\ sess = NoSession
    /\ workers = [w \in Workers |-> IdleWorker]
    /\ lock = 0
    /\ imp = NoRows
    /\ console = NotStarted
    /\ threads = NoThreads
    /\ mutex = 0
    /\ bucket = <<>>
    /\ main = NoMain
    /\ exported = NoExport

Init ==
    /\ InitStore
    /\ number = 0
    /\ words = <<>>

\* the front end is waiting for a request
Ready == req = Idle

\* a request handled on its own, from its arrival to its response
Sequential ==
    Ready /\ UNCHANGED <<workers, lock, import_vars, menu_vars, thread_vars, words_vars,
                 client_vars>>

Next ==
    \/ Sequential /\ (\E data \in Bodies : create_customer(TRUE, data)) /\ InBounds'
    \/ Sequential /\ create_customer(FALSE, <<>>)
    \/ Sequential /\ \E id \in Ids : get_customer(id)
    \/ Sequential /\ \E id \in Ids, data \in Bodies : update_customer(id, TRUE, data)
    \/ Sequential /\ \E id \in Ids : update_customer(id, FALSE, <<>>)
    \/ Sequential /\ \E id \in Ids : delete_customer(id)
    \/ Sequential /\ (\E csv \in CsvInputs(ShortRows) : bulk_import(TRUE, TRUE, csv.rows, csv.has_key, csv.has_header))
             /\ InBounds'
    \/ Sequential /\ bulk_import(FALSE, FALSE, <<>>, FALSE, FALSE)
    \/ Sequential /\ bulk_import(TRUE, FALSE, <<>>, FALSE, FALSE)
    \/ Sequential /\ (\E data \in Bodies : CustomerList_post(data)) /\ InBounds'
    \/ Sequential /\ \E id \in Ids : CustomerItem_get(id)
    \/ Sequential /\ \E id \in Ids, data \in Bodies : CustomerItem_put(id, data)
    \/ Sequential /\ \E id \in Ids : CustomerItem_delete(id)
    \/ Sequential /\ (\E csv \in CsvInputs(ShortRows) :
                    CustomerBulkImport_post(TRUE, csv.rows, csv.has_key, csv.has_header))
             /\ InBounds'
    \/ Sequential /\ CustomerBulkImport_post(FALSE, <<>>, FALSE, FALSE)
    \/ Sequential /\ (\E client_id \in 0..MaxId, data \in Bodies :
                    handle_create_customer(client_id, data))
             /\ InBounds'
    \/ Sequential /\ \E id \in Ids : handle_get_customer_by_id(id)
    \/ Sequential /\ (\E name \in ConsoleNames, email \in ConsoleEmails, phone \in ConsolePhones,
                    city \in Cities : add_customer(name, email, phone, city))
             /\ InBounds'
    \/ Sequential /\ \E email \in Emails, name \in ConsoleNames, new_email \in ConsoleEmails,
                   phone \in ConsolePhones, city \in Cities :
                    console_update_customer(email, name, new_email, phone, city)
    \/ Sequential /\ \E email \in Emails, confirm \in Confirmations :
                    console_delete_customer(email, confirm)
    \/ Sequential /\ (\E lines \in ConsoleLines(ShortRows) : console_bulk_import(lines)) /\ InBounds'
    \/ Sequential /\ (\E name \in Names, email \in Emails, phone \in Phones, city \in Cities :
                    accept_and_add_customer_data(name, email, phone, city))
             /\ InBounds'
    \/ Sequential /\ \E id \in Ids, name \in ConsoleNames, email \in ConsoleEmails,
                   phone \in ConsolePhones, city \in Cities :
                    search_by_id_and_update(id, name, email, phone, city)
    \/ Sequential /\ \E email \in Emails, choice \in Confirmations :
                    search_by_email_and_delete(email, choice)
    \/ Deliver

Spec == Init /\ [][Next]_vars

\* the bulk imports alone, with longer CSV texts
NextBulk ==
    \/ Sequential /\ (\E csv \in BulkCsvInputs(MaxRows) :
                    bulk_import(TRUE, TRUE, csv.rows, csv.has_key, csv.has_header))
             /\ InBounds'
    \/ Sequential /\ bulk_import(FALSE, FALSE, <<>>, FALSE, FALSE)
    \/ Sequential /\ bulk_import(TRUE, FALSE, <<>>, FALSE, FALSE)
    \/ Sequential /\ (\E csv \in BulkCsvInputs(MaxRows) :
                    CustomerBulkImport_post(TRUE, csv.rows, csv.has_key, csv.has_header))
             /\ InBounds'
    \/ Sequential /\ CustomerBulkImport_post(FALSE, <<>>, FALSE, FALSE)
    \/ Sequential /\ (\E lines \in ConsoleLines(MaxRows) : console_bulk_import(lines))
             /\ InBounds'
    \/ Sequential /\ \E id \in Ids : delete_customer(id)
    \/ Deliver

SpecBulk == Init /\ [][NextBulk]_vars

(***************************************************************************)
(* Properties.                                                             *)
(***************************************************************************)
ApiVariants == {"flask", "restx", "minimal"}

Count(tbl) == Cardinality(DOMAIN tbl)

\* another row than `id` holds this email / this phone
EmailTaken(tbl, id, email) == \E j \in DOMAIN tbl \ {id} : tbl[j].email = email
PhoneTaken(tbl, id, phone) == \E j \in DOMAIN tbl \ {id} : tbl[j].phone = phone

\* C1: in every reachable state no two stored customers share an email and
\* no two share a phone, whatever front ends wrote the table.
C1_UniqueEmailAndPhone ==
    \A i \in DOMAIN customers : \A j \in DOMAIN customers :
        i # j => /\ customers[i].email # customers[j].email
                 /\ customers[i].phone # customers[j].phone

\* two customers are stored and a write colliding with one of them was refused
C1_Witness ==
    /\ Count(customers) = 2
    /\ req.op \in {"create", "update"}
    /\ req.variant = "flask"
    /\ resp.status = 409

\* the response tells that the write was refused for a constraint violation
Refused(q, r) ==
    /\ q.op \in {"create", "update"}
    /\ \/ q.variant \in {"flask", "restx"} /\ r.status = 409
       \/ q.variant = "minimal" /\ r.status = 500
       \/ q.variant = "console"
            /\ r.error \in {<<"Error adding customer">>, <<"Error updating customer">>}
       \/ q.variant = "script"
            /\ r.error \in {<<"Traceback">>, <<"There was an error">>}

\* C2: a create or update refused for a duplicate email or phone leaves the
\* table exactly as it was: same keys, same rows.
C2_RefusedWriteLeavesStore ==
    [][Refused(req', resp') => customers' = customers]_vars

\* an update of a stored customer was refused with 409
C2_Witness ==
    /\ req.op = "update"
    /\ req.variant \in {"flask", "restx"}
    /\ resp.status = 409
    /\ Count(customers) = 2

\* C3 (as claimed): in every API variant a delete of an id that has no record
\* answers 404 and leaves the table unchanged.
C3_DeleteMissingIs404 ==
    [][(/\ req'.op = "delete"
        /\ req'.variant \in ApiVariants
        /\ req'.id \notin DOMAIN customers)
       => (resp'.status = 404 /\ customers' = customers)]_vars

\* C4 (as claimed): in every API variant a well-formed get-by-id or update
\* of an id that has no record answers 404 and leaves the table unchanged.
C4_GetOrPutMissingIs404 ==
    [][(/\ req'.op \in {"get", "update"}
        /\ req'.variant \in ApiVariants
        /\ req'.id \notin DOMAIN customers
        /\ resp'.status # 400)
       => (resp'.status = 404 /\ customers' = customers)]_vars

\* the column of `header` a field is read from (0: none), as the row sees it
Column(header, row, k) ==
    LET cols == {i \in 1..Min(Len(header), Len(row)) : Lower(header[i]) = k}
    IN  IF cols = {} THEN 0 ELSE Max(cols)

\* a row with enough columns, all three required fields among them
ValidRow(header, row) ==
    /\ Len(row) >= 3
    /\ \A k \in {"name", "email", "phone"} : Column(header, row, k) # 0

\* the rows of `rows` that are valid and collide neither with the emails and
\* phones in use nor with those of an earlier accepted row
RECURSIVE AcceptedRows(_, _, _, _)
AcceptedRows(header, rows, emails, phones) ==
    IF rows = <<>> THEN <<>>
    ELSE LET row == Head(rows)
             ok == /\ ValidRow(header, row)
                   /\ row[Column(header, row, "email")] \notin emails
                   /\ row[Column(header, row, "phone")] \notin phones
         IN  IF ok
             THEN <<row>> \o AcceptedRows(header, Tail(rows),
                                 emails \cup {row[Column(header, row, "email")]},
                                 phones \cup {row[Column(header, row, "phone")]})
             ELSE AcceptedRows(header, Tail(rows), emails, phones)

PositionalHeader == <<"name", "email", "phone", "city">>

\* the request asks for its first row to be read as the header: has_header
\* is true or is left out
HeaderExpected(q) == ~q.data.has_header_key \/ q.data.has_header

\* the header and the data rows of a bulk request that reached the row loop
BulkHeader(q) ==
    IF HeaderExpected(q) THEN q.data.csv_data[1] ELSE PositionalHeader
BulkDataRows(q) ==
    IF HeaderExpected(q) THEN Tail(q.data.csv_data) ELSE q.data.csv_data
BulkAccepted(tbl, q) ==
    AcceptedRows(BulkHeader(q), BulkDataRows(q),
                 {tbl[j].email : j \in DOMAIN tbl}, {tbl[j].phone : j \in DOMAIN tbl})

\* the request was a bulk import whose rows were processed
BulkRan(q, r) ==
    /\ q.op = "bulk"
    /\ r.error \in {<<>>, <<"Import complete">>}

\* C5: a bulk import stores exactly the rows that are valid and collide with
\* nothing stored when they are processed; a failed row neither stops a later
\* row nor undoes an earlier one, and every other row is reported as failed.
C5_BulkImportIsolatesRows ==
    [][BulkRan(req', resp') =>
        /\ Count(customers') = Count(customers) + Len(BulkAccepted(customers, req'))
        /\ resp'.success_count = Len(BulkAccepted(customers, req'))
        /\ Len(resp'.failed_rows) = Len(BulkDataRows(req')) - resp'.success_count
        /\ \A j \in DOMAIN customers :
              j \in DOMAIN customers' /\ customers'[j] = customers[j]]_vars

\* three rows, the second repeating the email of the first: rows 1 and 3 are
\* stored and row 2 is reported
C5_Witness ==
    /\ req.op = "bulk"
    /\ req.variant = "flask"
    /\ req.data.csv_data = << <<"n", "a", "1">>, <<"", "a", "2">>, <<"n", "b", "2", "X">> >>
    /\ resp.success_count = 2
    /\ resp.failed_rows = << FailedRow(<<"", "a", "2">>, "IntegrityError") >>
    /\ Count(customers) = 2

\* C6 (as claimed): no stored customer has an empty name, email or phone.
C6_NoEmptyRequiredField ==
    \A j \in DOMAIN customers :
        /\ customers[j].name # ""
        /\ customers[j].email # ""
        /\ customers[j].phone # ""

\* a create request whose body holds non-empty name, email and phone (and
\* nothing but the customer's fields) with an email and a phone no row uses
FreshCreate(tbl, q) ==
    /\ q.op = "create"
    /\ q.variant \in ApiVariants
    /\ q.json
    /\ q.id = 0
    /\ \A k \in {"name", "email", "phone"} : k \in DOMAIN q.data /\ q.data[k] # ""
    /\ ~EmailTaken(tbl, 0, q.data["email"])
    /\ ~PhoneTaken(tbl, 0, q.data["phone"])

Supplied(q) ==
    IF q.variant \in {"console", "script"}
    THEN {f \in DOMAIN q.data : Strip(q.data[f]) # ""}
    ELSE DOMAIN q.data

\* the rows an update request targets
Targets(tbl, q) ==
    IF q.variant = "console" THEN ByEmail(tbl, q.lookup) ELSE {q.id} \cap DOMAIN tbl

\* C8: an update keeps the set of rows, changes no row but the targeted one,
\* and on that row no field its input does not supply.
C8_UpdateFrame ==
    [][req'.op = "update" =>
        /\ DOMAIN customers' = DOMAIN customers
        /\ \A j \in DOMAIN customers :
              /\ j \notin Targets(customers, req') => customers'[j] = customers[j]
              /\ \A f \in Fields \ Supplied(req') : customers'[j][f] = customers[j][f]]_vars

\* an update of the city alone succeeded on a row whose other fields are set
C8_Witness ==
    /\ req.op = "update"
    /\ req.variant = "flask"
    /\ DOMAIN req.data = {"city"}
    /\ resp.status = 200
    /\ resp.customer.city = "X"
    /\ resp.customer.name = "n"
    /\ Count(customers) = 2

\* the value a create or update request asks the row to have in field f
Asked(tbl, q, f) ==
    IF f \in DOMAIN q.data THEN q.data[f] ELSE tbl[q.id][f]

\* a create or update of a full API variant that reaches the commit
Commits(tbl, q, r) ==
    /\ q.op \in {"create", "update"}
    /\ q.variant \in {"flask", "restx"}
    /\ r.status # 400
    /\ q.op = "update" => q.id \in DOMAIN tbl

\* C9: in the two full API variants a create or update whose email or phone
\* is that of another row answers 409; the message names the email when only
\* the email collides and the phone when only the phone collides.
C9_ConflictNamesField ==
    [][Commits(customers, req', resp') =>
        LET e == EmailTaken(customers, req'.id, Asked(customers, req', "email"))
            p == PhoneTaken(customers, req'.id, Asked(customers, req', "phone"))
        IN  /\ (e \/ p) => resp'.status = 409
            /\ (e /\ ~p) => resp'.error = <<"Email address already exists">>
            /\ (p /\ ~e) => resp'.error = <<"Phone number already exists">>]_vars

\* an update moved onto the phone of another row and was told so
C9_Witness ==
    /\ req.op = "update"
    /\ req.variant = "restx"
    /\ DOMAIN req.data = {"phone"}
    /\ resp.status = 409
    /\ resp.error = <<"Phone number already exists">>

\* C10 (as claimed): the minimal endpoint answers 409 to a create whose email
\* or phone is stored already and 400 to one that lacks name, email or phone,
\* and stores nothing in either case.
C10_MinimalCreateStatus ==
    [][(req'.op = "create" /\ req'.variant = "minimal") =>
        /\ ({"name", "email", "phone"} \ DOMAIN req'.data # {})
              => (resp'.status = 400 /\ customers' = customers)
        /\ (/\ {"name", "email", "phone"} \subseteq DOMAIN req'.data
            /\ \/ EmailTaken(customers, 0, req'.data["email"])
               \/ PhoneTaken(customers, 0, req'.data["phone"]))
              => (resp'.status = 409 /\ customers' = customers)]_vars

\* C11 (as claimed): in every API variant a delete of a stored id answers 204
\* with no content, removes exactly that row, and a get of that id issued
\* next finds nothing (404).
C11_DeleteExistingIs204 ==
    [][(/\ req'.op = "delete"
        /\ req'.variant \in ApiVariants
        /\ req'.id \in DOMAIN customers)
       => /\ resp'.status = 204
          /\ resp'.error = <<>>
          /\ customers' = Remove(customers, req'.id)
          /\ FindResponse(customers', req'.id, "").status = 404]_vars

(***************************************************************************)
(* List, search and export.  A query over the customers table yields the   *)
(* rows in rowid order unless it has an ORDER BY clause.                   *)
(***************************************************************************)
\* the characters of the strings the queries of the model work on
Chars(s) ==
    CASE s = "" -> <<>>
      [] s = "Xy" -> <<"X", "y">>
      [] OTHER -> <<s>>

\* SQLite's LIKE compares ASCII letters without regard to case
NoCase(c) ==
    CASE c = "X" -> "x"
      [] c = "Y" -> "y"
      [] OTHER -> c

\* pattern LIKE text on character sequences: % stands for any run of
\* characters, _ for any single character
RECURSIVE LikeChars(_, _)
LikeChars(pat, txt) ==
    IF pat = <<>> THEN txt = <<>>
    ELSE IF Head(pat) = "%"
    THEN LikeChars(Tail(pat), txt) \/ (txt # <<>> /\ LikeChars(pat, Tail(txt)))
    ELSE /\ txt # <<>>
         /\ (Head(pat) = "_" \/ NoCase(Head(pat)) = NoCase(Head(txt)))
         /\ LikeChars(Tail(pat), Tail(txt))

\* Customer.<column>.like(f"%{value}%"): NULL LIKE pattern is not true
Like(field, value) ==
    /\ field # Null
    /\ LikeChars(<<"%">> \o Chars(value) \o <<"%">>, Chars(field))

\* the ids of a set in ascending order: the order of a table scan
RECURSIVE Ascending(_)
Ascending(S) ==
    IF S = {} THEN <<>>
    ELSE LET m == CHOOSE x \in S : \A y \in S : x <= y
         IN  <<m>> \o Ascending(S \ {m})

\* the place of a value in SQLite's ordering of a column: NULL first, then
\* text in BINARY collation
Collate(v) ==
    CASE v = Null -> 0
      [] v = "" -> 1
      [] v = " " -> 2
      [] v = "1" -> 3
      [] v = "2" -> 4
      [] v = "X" -> 5
      [] v = "Xy" -> 6
      [] v = "a" -> 7
      [] v = "b" -> 8
      [] v = "m" -> 9
      [] v = "n" -> 10

\* the orders in which query.order_by(column).all() may yield the rows S:
\* ascending by the column, rows with equal values in either order
OrderedBy(tbl, S, column) ==
    { s \in [1..Cardinality(S) -> S] :
        /\ \A i, j \in DOMAIN s : i # j => s[i] # s[j]
        /\ \A i, j \in DOMAIN s :
             i < j => Collate(tbl[s[i]][column]) <= Collate(tbl[s[j]][column]) }

\* [customer.to_dict() for customer in customers]
Dicts(tbl, ids) == [i \in DOMAIN ids |-> to_dict(tbl, ids[i])]

\* the request of a query and its answer
QueryRequest(variant, op, args) ==
    [op |-> op, variant |-> variant, id |-> 0, json |-> FALSE, data |-> args]

ListResponse(status, rows) == [status |-> status, error |-> <<>>, customers |-> rows]

\* the rows every filter of the query accepts; crit maps a column to the
\* value of its query parameter
Matching(tbl, crit) ==
    { j \in DOMAIN tbl : \A k \in DOMAIN crit : Like(tbl[j][k], crit[k]) }

\* ex03.py get_customers: a filter for each parameter that is present and
\* not empty; order_by is not read
get_customers(args) ==
    /\ sess' = close(get_session)
    /\ req' = QueryRequest("flask", "list", args)
    /\ LET crit == [k \in {f \in Fields \cap DOMAIN args : Truthy(args[f])} |-> args[k]]
       IN  resp' = ListResponse(200, Dicts(customers, Ascending(Matching(customers, crit))))
    /\ UNCHANGED customers

\* Customer.id == params['id']: the text of the parameter is compared as
\* the integer it spells
IntegerAffinity(s) ==
    CASE s = "1" -> 1
      [] s = "2" -> 2
      [] s = "3" -> 3
      [] OTHER -> 0

\* ex03.py search_customers: a filter for each parameter that is present,
\* an ORDER BY when order_by is name, email or city
search_customers(params) ==
    /\ sess' = close(get_session)
    /\ req' = QueryRequest("flask", "search", params)
    /\ LET crit == [k \in Fields \cap DOMAIN params |-> params[k]]
           found == { j \in Matching(customers, crit) :
                        "id" \in DOMAIN params => j = IntegerAffinity(params["id"]) }
       IN  IF "order_by" \in DOMAIN params /\ params["order_by"] \in {"name", "email", "city"}
           THEN \E s \in OrderedBy(customers, found, params["order_by"]) :
                    resp' = ListResponse(200, Dicts(customers, s))
           ELSE resp' = ListResponse(200, Dicts(customers, Ascending(found)))
    /\ UNCHANGED customers

\* ex04.py CustomerList.get
CustomerList_get(args) ==
    /\ sess' = close(get_session)
    /\ req' = QueryRequest("restx", "list", args)
    /\ LET crit == [k \in {f \in Fields \cap DOMAIN args : Truthy(args[f])} |-> args[k]]
       IN  resp' = ListResponse(200, Dicts(customers, Ascending(Matching(customers, crit))))
    /\ UNCHANGED customers

\* ex04.py CustomerSearch.get: search_parser refuses an order_by outside
\* its choices; a filter for each argument that is present and not empty
CustomerSearch_get(args) ==
    /\ sess' = (IF "order_by" \in DOMAIN args /\ args["order_by"] \notin {"name", "email", "city"}
                THEN NoSession ELSE close(get_session))
    /\ req' = QueryRequest("restx", "search", args)
    /\ LET crit == [k \in {f \in Fields \cap DOMAIN args : Truthy(args[f])} |-> args[k]]
           found == Matching(customers, crit)
       IN  IF "order_by" \in DOMAIN args /\ args["order_by"] \notin {"name", "email", "city"}
           THEN resp' = Response(400, <<"Input payload validation failed">>, Null)
           ELSE IF "order_by" \in DOMAIN args
           THEN \E s \in OrderedBy(customers, found, args["order_by"]) :
                    resp' = ListResponse(200, Dicts(customers, s))
           ELSE resp' = ListResponse(200, Dicts(customers, Ascending(found)))
    /\ UNCHANGED customers

\* myworkspace/ex05.py handle_get_customers
handle_get_customers ==
    /\ sess' = with_Session
    /\ req' = QueryRequest("minimal", "list", <<>>)
    /\ resp' = ListResponse(200, Dicts(customers, Ascending(DOMAIN customers)))
    /\ UNCHANGED customers

\* csv.writer writes None as the empty field
CsvField(v) == IF v = Null THEN "" ELSE v

\* writer.writerow([customer.id, customer.name, ...]) for each customer; the
\* id is written as its digits
CsvRows(tbl, ids) ==
    [i \in DOMAIN ids |->
        <<ToString(ids[i]), CsvField(tbl[ids[i]].name), CsvField(tbl[ids[i]].email),
          CsvField(tbl[ids[i]].phone), CsvField(tbl[ids[i]].city)>>]

\* csv_data is kept as the sequence of the rows of the text
ExportResponse(status, message, count, rows) ==
    [status |-> status, error |-> message, count |-> count, csv_data |-> rows]

\* ex03.py export_customers: an empty table is answered before the writer
\* is created
export_customers ==
    /\ sess' = close(get_session)
    /\ req' = QueryRequest("flask", "export", <<>>)
    /\ IF DOMAIN customers = {}
       THEN resp' = ExportResponse(200, <<"No customers found to export">>, 0, <<>>)
       ELSE resp' = ExportResponse(200, <<>>, Count(customers),
                        << <<"id", "name", "email", "phone", "city">> >>
                        \o CsvRows(customers, Ascending(DOMAIN customers)))
    /\ UNCHANGED customers

\* ex04.py CustomerExport.get
CustomerExport_get ==
    /\ sess' = close(get_session)
    /\ req' = QueryRequest("restx", "export", <<>>)
    /\ resp' = ExportResponse(200, <<>>, Count(customers),
                   << <<"id", "name", "email", "phone", "city">> >>
                   \o CsvRows(customers, Ascending(DOMAIN customers)))
    /\ UNCHANGED customers

\* an f-string prints None as the word None
Printed(v) == IF v = Null THEN "None" ELSE v

\* ex02.py export_customers: the lines printed under "CSV Output:"
console_export_customers ==
    /\ sess' = ModuleSession
    /\ req' = QueryRequest("console", "export", <<>>)
    /\ LET ids == Ascending(DOMAIN customers)
       IN  IF DOMAIN customers = {}
           THEN resp' = ExportResponse(0, <<"No customers found to export.">>, 0, <<>>)
           ELSE resp' = ExportResponse(0, <<"Exported customers.">>, Count(customers),
                            << <<"name", "email", "phone", "city">> >>
                            \o [i \in DOMAIN ids |->
                                  <<Printed(customers[ids[i]].name),
                                    Printed(customers[ids[i]].email),
                                    Printed(customers[ids[i]].phone),
                                    Printed(customers[ids[i]].city)>>])
    /\ UNCHANGED customers

\* the query strings and stores of the query specification
QueryNames == {"n", "m"}
QueryCities == {"X", "Xy"}

QueryBodies ==
    { [name |-> n, email |-> e, phone |-> p, city |-> c] :
        n \in QueryNames, e \in Emails, p \in Phones, c \in QueryCities }

\* bodies without a city, which ex05.py stores as NULL
CitylessBodies == { [name |-> "n", email |-> e, phone |-> p] : e \in Emails, p \in Phones }

ArgValues(k) ==
    CASE k = "name" -> {"", "_"}
      [] k = "email" -> {"a"}
      [] k = "city" -> {"x", "y"}
      [] k = "order_by" -> {"name", "phone"}
      [] k = "id" -> {"1"}

QueryArgs(keys) ==
    UNION { { a \in [K -> {"", "_", "a", "x", "y", "name", "phone", "1"}] :
                \A k \in K : a[k] \in ArgValues(k) } : K \in SUBSET keys }

NextQuery ==
    \/ Sequential /\ (\E data \in QueryBodies : create_customer(TRUE, data)) /\ InBounds'
    \/ Sequential /\ (\E data \in CitylessBodies : handle_create_customer(0, data)) /\ InBounds'
    \/ Sequential /\ \E id \in Ids : delete_customer(id)
    \/ Sequential /\ \E args \in QueryArgs({"name", "email", "city", "order_by"}) : get_customers(args)
    \/ Sequential /\ \E params \in QueryArgs({"name", "email", "city", "order_by", "id"}) :
                    search_customers(params)
    \/ Sequential /\ \E args \in QueryArgs({"name", "email", "city", "order_by"}) :
                    CustomerList_get(args)
    \/ Sequential /\ \E args \in QueryArgs({"name", "email", "city", "order_by"}) :
                    CustomerSearch_get(args)
    \/ Sequential /\ handle_get_customers
    \/ Sequential /\ export_customers
    \/ Sequential /\ CustomerExport_get
    \/ Sequential /\ console_export_customers
    \/ Deliver

SpecQuery == Init /\ [][NextQuery]_vars

\* the characters of a stored value; NULL holds no text
Text(v) == IF v = Null THEN <<>> ELSE Chars(v)

\* c occurs in f as a run of consecutive characters
Contains(f, c) ==
    \E i \in 1..(Len(f) + 1) :
        /\ i + Len(c) - 1 <= Len(f)
        /\ SubSeq(f, i, i + Len(c) - 1) = c

\* the ids of the records a list or search answer carries
ReturnedIds(r) == { r.customers[i].id : i \in DOMAIN r.customers }

\* C12 (as claimed): a list or search answers with all and only the stored
\* records in which every supplied criterion among name, email, phone and
\* city occurs as a substring of that field, each record once; without
\* criteria that is every record.
C12_ListReturnsSubstringMatches ==
    [][(/\ req'.op \in {"list", "search"}
        /\ req'.variant \in ApiVariants
        /\ "id" \notin DOMAIN req'.data
        /\ resp'.status = 200)
       => /\ ReturnedIds(resp') =
               { j \in DOMAIN customers :
                   \A k \in Fields \cap DOMAIN req'.data :
                       Contains(Text(customers[j][k]), Chars(req'.data[k])) }
          /\ Len(resp'.customers) = Cardinality(ReturnedIds(resp'))]_vars

\* the query parameters of a request other than order_by
Unordered(args) == [k \in DOMAIN args \ {"order_by"} |-> args[k]]

\* C13 (as claimed): the list route called with order_by naming a field
\* answers with the records it answers without order_by, sorted ascending by
\* that field.
C13_ListOrderBy ==
    [][(/\ req'.op = "list"
        /\ req'.variant \in {"flask", "restx"}
        /\ "order_by" \in DOMAIN req'.data
        /\ req'.data["order_by"] \in Fields)
       => /\ resp'.status = 200
          /\ ReturnedIds(resp') =
               Matching(customers,
                        [k \in {f \in Fields \cap DOMAIN Unordered(req'.data) :
                                  Truthy(req'.data[f])} |-> req'.data[k]])
          /\ \A i, j \in DOMAIN resp'.customers :
               i < j => Collate(resp'.customers[i][req'.data["order_by"]])
                          <= Collate(resp'.customers[j][req'.data["order_by"]])]_vars

\* the header row an export of this front end writes
ExportHeader(variant) ==
    IF variant = "console" THEN <<"name", "email", "phone", "city">>
    ELSE <<"id", "name", "email", "phone", "city">>

\* row is the export row of the stored record j
RowOf(variant, tbl, j, row) ==
    LET c == tbl[j]
    IN  IF variant = "console"
        THEN row = <<Printed(c.name), Printed(c.email), Printed(c.phone), Printed(c.city)>>
        ELSE row = <<ToString(j), CsvField(c.name), CsvField(c.email), CsvField(c.phone),
                     CsvField(c.city)>>

\* C14 (as claimed): every export yields the header row first and then one
\* row for each stored record and nothing else, the empty table included
\* (header only).
C14_ExportHeaderThenRows ==
    [][(req'.op = "export") =>
        /\ resp'.csv_data # <<>>
        /\ Head(resp'.csv_data) = ExportHeader(req'.variant)
        /\ Len(resp'.csv_data) = Count(customers) + 1
        /\ \A j \in DOMAIN customers :
             \E i \in 2..Len(resp'.csv_data) :
                 RowOf(req'.variant, customers, j, resp'.csv_data[i])]_vars

\* s is r with some of its elements left out, the others in their order
RECURSIVE IsSubsequence(_, _)
IsSubsequence(s, r) ==
    IF s = <<>> THEN TRUE
    ELSE IF r = <<>> THEN FALSE
    ELSE IF Head(s) = Head(r) THEN IsSubsequence(Tail(s), Tail(r))
    ELSE IsSubsequence(s, Tail(r))

\* C15: a bulk import that processed its rows reports a success count and a
\* failure list with success count + failures = data rows submitted, the
\* success count being the number of records the table gained and the
\* failures being rows of the input in input order.
C15_BulkImportCounts ==
    [][BulkRan(req', resp') =>
        /\ resp'.success_count + Len(resp'.failed_rows) = Len(BulkDataRows(req'))
        /\ resp'.success_count = Count(customers') - Count(customers)
        /\ IsSubsequence([i \in DOMAIN resp'.failed_rows |-> resp'.failed_rows[i].row],
                         BulkDataRows(req'))]_vars

\* an import of three rows stored one and reported the two others in order
C15_Witness ==
    /\ req.op = "bulk"
    /\ req.variant = "restx"
    /\ Len(req.data.csv_data) = 3
    /\ req.data.has_header_key
    /\ ~req.data.has_header
    /\ resp.success_count = 1
    /\ Len(resp.failed_rows) = 2
    /\ resp.failed_rows[1].row = req.data.csv_data[1]
    /\ resp.failed_rows[2].row # resp.failed_rows[1].row

\* the field a column name stands for when letter case is ignored
NamedField(h) ==
    CASE h \in {"name", "Name"} -> "name"
      [] h \in {"email", "Email", "EMAIL"} -> "email"
      [] h \in {"phone", "Phone"} -> "phone"
      [] h \in {"city", "City"} -> "city"
      [] OTHER -> h

\* the column of the row that carries field k under this header (0: none)
ColumnNamed(header, row, k) ==
    LET cols == {i \in 1..Min(Len(header), Len(row)) : NamedField(header[i]) = k}
    IN  IF cols = {} THEN 0 ELSE Max(cols)

\* the record a row stands for under this header
RecordNamed(header, row) ==
    [name |-> row[ColumnNamed(header, row, "name")],
     email |-> row[ColumnNamed(header, row, "email")],
     phone |-> row[ColumnNamed(header, row, "phone")],
     city |-> IF ColumnNamed(header, row, "city") = 0 THEN ""
              ELSE row[ColumnNamed(header, row, "city")]]

\* the records the rows stand for, in input order, leaving out the rows that
\* lack a required column and those whose email or phone is in use
RECURSIVE RecordsNamed(_, _, _, _)
RecordsNamed(header, rows, emails, phones) ==
    IF rows = <<>> THEN <<>>
    ELSE LET row == Head(rows)
             ok == /\ Len(row) >= 3
                   /\ \A k \in {"name", "email", "phone"} : ColumnNamed(header, row, k) # 0
                   /\ RecordNamed(header, row).email \notin emails
                   /\ RecordNamed(header, row).phone \notin phones
         IN  IF ok
             THEN <<RecordNamed(header, row)>>
                  \o RecordsNamed(header, Tail(rows),
                                  emails \cup {RecordNamed(header, row).email},
                                  phones \cup {RecordNamed(header, row).phone})
             ELSE RecordsNamed(header, Tail(rows), emails, phones)

\* the rows a table gained, oldest first
Gained(before, after) ==
    LET ids == Ascending(DOMAIN after \ DOMAIN before)
    IN  [i \in DOMAIN ids |-> after[ids[i]]]

\* C16: an API bulk import with has_header false imports every row, the
\* first included, by position as name, email, phone, city; with has_header
\* true or left out it never imports the first row and reads each field from
\* the column whose header names it, letter case and column order aside.
C16_HeaderRowHandling ==
    [][(BulkRan(req', resp') /\ req'.variant \in {"flask", "restx"}) =>
        LET rows == req'.data.csv_data
            emails == {customers[j].email : j \in DOMAIN customers}
            phones == {customers[j].phone : j \in DOMAIN customers}
        IN  IF req'.data.has_header_key /\ ~req'.data.has_header
            THEN Gained(customers, customers')
                   = RecordsNamed(<<"name", "email", "phone", "city">>, rows, emails, phones)
            ELSE Gained(customers, customers')
                   = RecordsNamed(rows[1], Tail(rows), emails, phones)]_vars

\* a text sent without has_header whose header row is EMAIL,name,Phone: the
\* header row is not stored and the data row is stored by column name
C16_Witness ==
    /\ req.op = "bulk"
    /\ req.variant = "flask"
    /\ ~req.data.has_header_key
    /\ req.data.csv_data = << <<"EMAIL", "name", "Phone">>, <<"n", "a", "1">> >>
    /\ resp.success_count = 1
    /\ customers = <<[name |-> "a", email |-> "n", phone |-> "1", city |-> ""]>>

(***************************************************************************)
(* Validation: request bodies whose values may be null, a number or the    *)
(* empty string.                                                           *)
(***************************************************************************)
RawValues(k) ==
    CASE k = "name" -> {Num, "", "n"}
      [] k = "email" -> {Null, "", "a"}
      [] k = "phone" -> {Num, "1", "2"}
      [] k = "city" -> {Null, Num, "X"}

RawBodies ==
    UNION { { d \in [K -> {Null, Num, "", "n", "a", "1", "2", "X"}] :
                \A k \in K : d[k] \in RawValues(k) } : K \in SUBSET Fields }

NextValidate ==
    \/ Sequential /\ (\E data \in RawBodies : create_customer(TRUE, data)) /\ InBounds'
    \/ Sequential /\ create_customer(FALSE, <<>>)
    \/ Sequential /\ \E id \in Ids, data \in RawBodies : update_customer(id, TRUE, data)
    \/ Sequential /\ \E id \in Ids : update_customer(id, FALSE, <<>>)
    \/ Sequential /\ \E id \in Ids : delete_customer(id)
    \/ Deliver

SpecValidate == Init /\ [][NextValidate]_vars

\* the value is a string with at least one character
NonEmptyString(v) == v \notin {Null, Num, ""}

\* the fields of a body the validation rule objects to
Offending(data, update) ==
    { k \in {"name", "email", "phone"} :
        /\ ~update \/ k \in DOMAIN data
        /\ ~(k \in DOMAIN data /\ NonEmptyString(data[k])) }
    \cup { k \in {"city"} : k \in DOMAIN data /\ data[k] \in {Num} }

FieldMessage(k) ==
    CASE k = "name" -> "Name is required and must be a string"
      [] k = "email" -> "Email is required and must be a string"
      [] k = "phone" -> "Phone is required and must be a string"
      [] k = "city" -> "City must be a string if provided"

\* C17: validate_customer_data returns one message for each offending field
\* and nothing else - for a create name, email and phone must be non-empty
\* strings, for an update only those whose key is sent, and city must be a
\* string when sent and not null; when there is a message create and update
\* answer 400 with the list, open no session and leave the table as it is.
C17_ValidationGate ==
    [][(req'.op \in {"create", "update"} /\ req'.variant = "flask" /\ req'.json) =>
        LET errors == validate_customer_data(req'.data, req'.op = "update")
            off == Offending(req'.data, req'.op = "update")
        IN  /\ Len(errors) = Cardinality(off)
            /\ {errors[i] : i \in DOMAIN errors} = {FieldMessage(k) : k \in off}
            /\ off # {} => /\ resp'.status = 400
                           /\ resp'.error = errors
                           /\ sess'.opened = 0
                           /\ customers' = customers
            /\ off = {} => sess'.opened = 1]_vars

\* an update of a stored customer that sends an empty email and no name is
\* refused with the one message about the email
C17_Witness ==
    /\ req.op = "update"
    /\ req.variant = "flask"
    /\ req.id \in DOMAIN customers
    /\ DOMAIN req.data = {"email", "city"}
    /\ req.data["email"] = ""
    /\ req.data["city"] = Null
    /\ resp.status = 400
    /\ resp.error = <<"Email is required and must be a string">>
    /\ sess = NoSession

\* the id the table gives to its next row when none is supplied
StoreAssigned(tbl) == IF DOMAIN tbl = {} THEN 1 ELSE Max(DOMAIN tbl) + 1

\* C18 (as claimed): the id of a created record is the one the store assigns,
\* whatever id the request body carries, and an update leaves the ids of the
\* stored records as they are.
C18_StoreAssignsIds ==
    [][/\ (req'.op = "create" /\ DOMAIN customers' # DOMAIN customers)
            => DOMAIN customers' = DOMAIN customers \cup {StoreAssigned(customers)}
       /\ (req'.op = "update") => DOMAIN customers' = DOMAIN customers]_vars

BusyNever(holder, w) == FALSE

\* the database is locked for writing by another connection: the INSERT of
\* this one waits
Busy(holder, w) == holder \notin {0, w}

\* request.is_json, validate_customer_data(data), session = get_session()
ReceiveCreate(w, data) ==
    /\ workers[w].pc = "idle"
    /\ IF validate_customer_data(data, FALSE) # <<>>
       THEN workers' = [workers EXCEPT ![w] =
                [@ EXCEPT !.pc = "done", !.data = data, !.status = 400,
                          !.error = validate_customer_data(data, FALSE)]]
       ELSE workers' = [workers EXCEPT ![w] =
                [@ EXCEPT !.pc = "validated", !.data = data, !.sess = get_session]]
    /\ UNCHANGED <<customers, req, resp, sess, lock>>
    /\ UNCHANGED <<import_vars, menu_vars, thread_vars, words_vars,
                 client_vars>>

\* session.add(new_customer) and the flush of session.commit(): the INSERT
\* takes the write lock and checks the constraints against the table; an
\* IntegrityError is answered after session.rollback()
FlushCreate(w) ==
    /\ workers[w].pc = "validated"
    /\ ~Busy(lock, w)
    /\ LET data == workers[w].data
           new_customer == Customer(data["name"], data["email"], data["phone"],
                                    IF "city" \in DOMAIN data THEN data["city"] ELSE "")
           id == NewId(customers)
           failed == Violations(customers, id, new_customer, TRUE)
       IN  IF failed = {}
           THEN /\ workers' = [workers EXCEPT ![w] = [@ EXCEPT !.pc = "flushed", !.id = id]]
                /\ lock' = w
           ELSE /\ \E c \in failed :
                    workers' = [workers EXCEPT ![w] =
                        [@ EXCEPT !.pc = "responded", !.status = 409,
                                  !.error = <<ConflictError(c)>>]]
                /\ lock' = IF lock = w THEN 0 ELSE lock
    /\ UNCHANGED <<customers, req, resp, sess>>
    /\ UNCHANGED <<import_vars, menu_vars, thread_vars, words_vars,
                 client_vars>>

\* the COMMIT of session.commit() makes the row visible and releases the
\* lock; the handler returns 201 with new_customer.to_dict()
CommitCreate(w) ==
    /\ workers[w].pc = "flushed"
    /\ LET data == workers[w].data
           new_customer == Customer(data["name"], data["email"], data["phone"],
                                    IF "city" \in DOMAIN data THEN data["city"] ELSE "")
       IN  customers' = Write(customers, workers[w].id, new_customer)
    /\ lock' = IF lock = w THEN 0 ELSE lock
    /\ workers' = [workers EXCEPT ![w] = [@ EXCEPT !.pc = "responded", !.status = 201]]
    /\ UNCHANGED <<req, resp, sess>>
    /\ UNCHANGED <<import_vars, menu_vars, thread_vars, words_vars,
                 client_vars>>

\* finally: session.close()
FinishCreate(w) ==
    /\ workers[w].pc = "responded"
    /\ workers' = [workers EXCEPT ![w] = [@ EXCEPT !.pc = "done", !.sess = close(@)]]
    /\ UNCHANGED <<customers, req, resp, sess, lock>>
    /\ UNCHANGED <<import_vars, menu_vars, thread_vars, words_vars,
                 client_vars>>

\* the bodies of the concurrent requests: valid ones and one without phone
ConcurrentBodies ==
    { [name |-> "n", email |-> e, phone |-> p] : e \in Emails, p \in Phones }
    \cup { [name |-> "n", email |-> "a"] }

NextConcurrent ==
    \/ \E w \in Workers, data \in ConcurrentBodies : ReceiveCreate(w, data)
    \/ \E w \in Workers : FlushCreate(w)
    \/ \E w \in Workers : CommitCreate(w)
    \/ \E w \in Workers : FinishCreate(w)

SpecConcurrent == Init /\ [][NextConcurrent]_vars

\* the worker has its answer to a create that passed validation
Answered(w) == workers[w].status \in {201, 409}

\* two requests ask for the same email or the same phone
SameKey(v, w) ==
    \/ workers[v].data["email"] = workers[w].data["email"]
    \/ workers[v].data["phone"] = workers[w].data["phone"]

FileRows ==
    { <<"1", "n", "a", "1", "X">>, <<"2", "n", "b", "2", "X">>,
      <<"2", "n", "a", "2", "X">>, <<"n", "b", "2">> }

FileSeqs(n) == UNION { [1..k -> FileRows] : k \in 0..n }

\* cur.execute('insert into customers values (%s, %s, %s, %s, %s)', fields)
\* inside try / except: print('error inserting'): the row is written in the
\* transaction of the connection, nothing is committed
add_record(fields, st) ==
    IF Len(fields) # 5
    THEN [st EXCEPT !.failed_rows = Append(@, FailedRow(fields, "error inserting"))]
    ELSE LET id == IntegerAffinity(fields[1])
             row == Customer(fields[2], fields[3], fields[4], fields[5])
         IN  IF Violations(st.tbl, id, row, TRUE) = {}
             THEN [st EXCEPT !.tbl = Write(@, id, row), !.success_count = @ + 1]
             ELSE [st EXCEPT !.failed_rows = Append(@, FailedRow(fields, "error inserting"))]

\* the import starts: session = get_session() / the lines are read /
\* connect() and f.readline()
begin_rows(variant, rows) ==
    /\ Ready
    /\ imp.pc = "idle"
    /\ Count(customers) + Len(rows) <= MaxId
    /\ imp' = [variant |-> variant, pc |-> "rows", rows |-> rows,
               st |-> [tbl |-> customers, success_count |-> 0, failed_rows |-> <<>>],
               inserted |-> {}]
    /\ UNCHANGED <<customers, req, resp, sess, workers, lock>>
    /\ UNCHANGED <<menu_vars, thread_vars, words_vars,
                 client_vars>>

\* one iteration of the loop over the rows
next_row ==
    /\ imp.pc = "rows"
    /\ imp.rows # <<>>
    /\ LET row == Head(imp.rows)
           st == CASE imp.variant = "flask" ->
                        ImportRow(<<"name", "email", "phone", "city">>, row, imp.st)
                   [] imp.variant = "console" -> ConsoleImportLine(row, imp.st)
                   [] OTHER -> add_record(row, imp.st)
       IN  /\ imp' = [imp EXCEPT !.rows = Tail(@), !.st = st,
                                 !.inserted = @ \cup (DOMAIN st.tbl \ DOMAIN imp.st.tbl)]
           /\ customers' = IF imp.variant = "add_records" THEN customers ELSE st.tbl
    /\ UNCHANGED <<req, resp, sess, workers, lock>>
    /\ UNCHANGED <<menu_vars, thread_vars, words_vars,
                 client_vars>>

\* the loop ends: the API answers and closes its session, the console
\* prints the counts, add_records reaches conn.commit()
end_rows ==
    /\ imp.pc = "rows"
    /\ imp.rows = <<>>
    /\ imp' = [imp EXCEPT !.pc = "done"]
    /\ customers' = IF imp.variant = "add_records" THEN imp.st.tbl ELSE customers
    /\ UNCHANGED <<req, resp, sess, workers, lock>>
    /\ UNCHANGED <<menu_vars, thread_vars, words_vars,
                 client_vars>>

\* processing stops before the end of the input, with an exception raised
\* outside the try of the row (ex03.py: the outer except rolls back and
\* answers 500; add_customer_records.py: reading the file or print fails
\* and the with block closes the connection without a commit) or with the
\* end of the process
stop_rows ==
    /\ imp.pc = "rows"
    /\ imp.rows # <<>>
    /\ imp' = [imp EXCEPT !.pc = "stopped", !.st = [@ EXCEPT !.tbl = customers]]
    /\ UNCHANGED <<customers, req, resp, sess, workers, lock>>
    /\ UNCHANGED <<menu_vars, thread_vars, words_vars,
                 client_vars>>

\* the next import can start
rows_over ==
    /\ imp.pc \in {"done", "stopped"}
    /\ imp' = NoRows
    /\ UNCHANGED <<customers, req, resp, sess, workers, lock>>
    /\ UNCHANGED <<menu_vars, thread_vars, words_vars,
                 client_vars>>

NextRows ==
    \/ \E rows \in DataSeqs(ShortRows) : begin_rows("flask", rows)
    \/ \E rows \in DataSeqs(ShortRows) : begin_rows("console", rows)
    \/ \E rows \in FileSeqs(ShortRows) : begin_rows("add_records", rows)
    \/ next_row
    \/ end_rows
    \/ stop_rows
    \/ rows_over

SpecRows == Init /\ [][NextRows]_vars

\* C21: each bulk-import row is its own commit unit: a row that was inserted
\* successfully is committed before the next row is attempted, and it stays
\* in the store whatever happens to the later rows, also when processing
\* stops before the end of the input.  So at every point of an import, and
\* after it, every row it has inserted is in the committed table.
C21_RowIsCommitUnit ==
    \A id \in imp.inserted : id \in DOMAIN customers

(***************************************************************************)
(* ex02.py show_menu: the loop of the menu application.  `console.pc` is   *)
(* "menu" while the loop waits for a selection, "operation" while the      *)
(* selected function runs, "exited" after sys.exit(0) and "crashed" when   *)
(* an exception has left show_menu.  The functions are the console         *)
(* handlers above, all using the module-level session.                     *)
(***************************************************************************)
\* list_customers: no try block
console_list_customers ==
    /\ sess' = ModuleSession
    /\ req' = QueryRequest("console", "list", <<>>)
    /\ resp' = ListResponse(0, Dicts(customers, Ascending(DOMAIN customers)))
    /\ UNCHANGED customers

\* str.isdigit on the values of the model
isdigit(s) == s \in {"1", "2", "3"}

\* the column searched by options 2 to 5
SearchColumn(choice) ==
    CASE choice = "2" -> "name"
      [] choice = "3" -> "email"
      [] choice = "4" -> "phone"
      [] OTHER -> "city"

\* search_customers: option 0 goes back, another option outside 1..5 is
\* refused, option 1 looks the id up, the others filter with LIKE
console_search_customers(choice, search_value) ==
    /\ sess' = ModuleSession
    /\ req' = QueryRequest("console", "search", [choice |-> choice, value |-> search_value])
    /\ resp' = IF choice = "0" THEN ListResponse(0, <<>>)
               ELSE IF choice \notin {"1", "2", "3", "4", "5"}
               THEN [ListResponse(0, <<>>) EXCEPT !.error = <<"Invalid option selected.">>]
               ELSE IF choice = "1"
               THEN IF ~isdigit(search_value)
                    THEN [ListResponse(0, <<>>) EXCEPT !.error = <<"ID must be a number.">>]
                    ELSE ListResponse(0, Dicts(customers,
                            Ascending({IntegerAffinity(search_value)} \cap DOMAIN customers)))
               ELSE ListResponse(0, Dicts(customers, Ascending(
                        {j \in DOMAIN customers :
                            Like(customers[j][SearchColumn(choice)], search_value)})))
    /\ UNCHANGED customers

\* the selections typed at the menu: the eight options and another text
MenuChoices == {"0", "1", "2", "3", "4", "5", "6", "7", "x"}

\* the function printed the message of an except clause
Excepted(q, r) ==
    IF q.op = "bulk"
    THEN \E i \in DOMAIN r.failed_rows : r.failed_rows[i].error = "Error importing line"
    ELSE r.error \in {<<"Error adding customer">>, <<"Error updating customer">>,
                      <<"Error deleting customer">>}

\* an exception no except clause of the function caught: show_menu has no
\* try block, the exception ends the program
Uncaught(r) == r.error = <<"Traceback">>

\* python ex02.py: the module creates its session and calls show_menu()
start_menu ==
    /\ console.pc = "off"
    /\ Ready
    /\ console' = [console EXCEPT !.pc = "menu"]
    /\ sess' = ModuleSession
    /\ UNCHANGED <<customers, req, resp, workers, lock>>
    /\ UNCHANGED <<import_vars, thread_vars, words_vars,
                 client_vars>>

\* choice = input("Select an option: ") and the branch taken for it
show_menu(choice) ==
    /\ console.pc = "menu"
    /\ Ready
    /\ CASE choice = "1" ->
                \E name \in ConsoleNames, email \in ConsoleEmails, phone \in ConsolePhones,
                   city \in Cities : add_customer(name, email, phone, city)
         [] choice = "2" -> console_list_customers
         [] choice = "3" ->
                \E c \in {"0", "1", "2", "5", "9"}, v \in {"1", "n", "x"} :
                    console_search_customers(c, v)
         [] choice = "4" ->
                \E email \in Emails, name \in ConsoleNames, new_email \in ConsoleEmails,
                   phone \in ConsolePhones, city \in Cities :
                    console_update_customer(email, name, new_email, phone, city)
         [] choice = "5" ->
                \E email \in Emails, confirm \in Confirmations :
                    console_delete_customer(email, confirm)
         [] choice = "6" -> \E lines \in ConsoleLines(ShortRows) : console_bulk_import(lines)
         [] choice = "7" -> console_export_customers
         [] choice = "0" ->
                /\ sess' = close(sess)
                /\ req' = QueryRequest("console", "exit", <<>>)
                /\ resp' = Response(0, <<"Exiting program. Goodbye!">>, Null)
                /\ UNCHANGED customers
         [] OTHER ->
                /\ req' = QueryRequest("console", "invalid", <<>>)
                /\ resp' = Response(0, <<"Invalid option. Please try again.">>, Null)
                /\ UNCHANGED <<customers, sess>>
    /\ console' = [pc |-> IF choice = "0" THEN "exited"
                          ELSE IF Uncaught(resp') THEN "crashed" ELSE "operation",
                   choice |-> choice,
                   failed |-> Excepted(req', resp'),
                   after_failure |-> console.failed]
    /\ InBounds'
    /\ UNCHANGED <<workers, lock>>
    /\ UNCHANGED <<import_vars, thread_vars, words_vars,
                 client_vars>>

\* the function returns (after its "Press Enter to continue..."): the
\* while True loop prints the menu again
back_to_menu ==
    /\ console.pc = "operation"
    /\ console' = [console EXCEPT !.pc = "menu"]
    /\ req' = Idle
    /\ resp' = Idle
    /\ UNCHANGED <<customers, sess, workers, lock>>
    /\ UNCHANGED <<import_vars, thread_vars, words_vars,
                 client_vars>>

NextMenu ==
    \/ start_menu
    \/ \E choice \in MenuChoices : show_menu(choice)
    \/ back_to_menu

SpecMenu == Init /\ [][NextMenu]_vars

\* C22: the console menu loop returns to the menu after every selection,
\* whether the selected operation succeeded, failed or the selection was
\* invalid; it ends only on the selection '0', and then the session has been
\* closed when the program exits.
C22_MenuLoop ==
    [][/\ console.pc = "menu" =>
            /\ console'.pc = IF console'.choice = "0" THEN "exited" ELSE "operation"
            /\ console'.pc = "exited" => sess'.closed = 1
       /\ console.pc = "operation" => console'.pc = "menu"
       /\ console.pc \in {"exited", "crashed"} => console'.pc = console.pc]_vars

\* a conflicting add has been refused and the loop is back at the menu
C22_Witness ==
    /\ console.pc = "menu"
    /\ console.choice = "1"
    /\ console.failed
    /\ Count(customers) = 1

\* the answer that confirms a console delete: 'y' or 'Y' in the menu
\* application, 'yes' in the workspace script
Accepting(q) ==
    IF q.variant = "console" THEN q.confirm \in {"y", "Y"} ELSE q.confirm = "yes"

\* C23: in the console front ends a record is removed only after the user
\* confirms: when the looked-up email matches no record, or the answer is
\* not the accepting one, the store is unchanged; on the accepting answer
\* exactly the looked-up record is removed.
C23_ConsoleDeleteConfirmed ==
    [][(req'.op = "delete" /\ req'.variant \in {"console", "script"}) =>
        LET found == {j \in DOMAIN customers : customers[j].email = req'.lookup}
        IN  IF found = {} \/ ~Accepting(req')
            THEN customers' = customers
            ELSE /\ DOMAIN customers' = DOMAIN customers \ found
                 /\ Cardinality(found) = 1
                 /\ \A j \in DOMAIN customers' : customers'[j] = customers[j]]_vars

\* the menu application has removed one of two records on the answer 'Y'
C23_Witness ==
    /\ req.op = "delete"
    /\ req.variant = "console"
    /\ req.confirm = "Y"
    /\ Count(customers) = 1
    /\ \A j \in DOMAIN customers : customers[j].email # req.lookup
    /\ resp.error = <<"Customer deleted successfully!">>

\* the record typed at the prompts of add_customer
Typed(q) == Customer(q.data.name, q.data.email, q.data.phone, q.data.city)

\* a selection whose function commits nothing
ReadOnlyChoice(c) == c \notin {"1", "4", "5", "6"}

\* C24: in the console application a conflict or other store error raised by
\* add, update, delete or a bulk-import row never terminates the program: the
\* shared session is rolled back before control returns to the menu, so the
\* failed change is in the store neither then nor after a later operation,
\* and the next operation can succeed.
C24_ConsoleErrorsRolledBack ==
    [][console.pc = "menu" =>
        /\ console'.pc \in {"operation", "exited"}
        /\ (console'.failed /\ req'.op # "bulk") => customers' = customers
        /\ req'.op = "bulk" =>
            /\ Count(customers') = Count(customers) + resp'.success_count
            /\ \A j \in DOMAIN customers : customers'[j] = customers[j]
            /\ resp'.success_count + Len(resp'.failed_rows) = Len(req'.data.csv_data)
        /\ ReadOnlyChoice(console'.choice) => customers' = customers
        /\ (console.failed /\ req'.op = "create") =>
            /\ \A j \in DOMAIN customers : customers'[j] = customers[j]
            /\ \A j \in DOMAIN customers' \ DOMAIN customers : customers'[j] = Typed(req')
            /\ (/\ " " \notin {req'.data.name, req'.data.email, req'.data.phone}
                /\ "" \notin {req'.data.name, req'.data.email, req'.data.phone}
                /\ \A j \in DOMAIN customers :
                     /\ customers[j].email # req'.data.email
                     /\ customers[j].phone # req'.data.phone)
               => /\ Count(customers') = Count(customers) + 1
                  /\ ~console'.failed]_vars

\* an add that followed a refused operation has stored its record
C24_Witness ==
    /\ console.pc = "operation"
    /\ console.after_failure
    /\ ~console.failed
    /\ req.op = "create"
    /\ resp.error = <<"Customer added successfully!">>
    /\ \E j \in DOMAIN customers : customers[j] = Typed(req)

\* C25: for every well-formed API bulk-import request the success flag of
\* the response and its HTTP status agree (success is true if and only if the
\* status is 200), and a batch whose rows were all processed is reported as
\* completed, with the counts of all its rows, whatever the number of failed
\* rows.
C25_BulkFlagMatchesStatus ==
    (/\ req.op = "bulk"
     /\ req.variant \in {"flask", "restx"}
     /\ req.json
     /\ req.data.has_csv) =>
        /\ resp.success <=> resp.status = 200
        /\ resp.error = <<>> =>
             resp.success_count + Len(resp.failed_rows) = Len(BulkDataRows(req))

(***************************************************************************)
(* Export followed by bulk import on the Flask API: a client keeps the     *)
(* csv_data of an export response and later posts it to the bulk import    *)
(* with has_header true.                                                   *)
(***************************************************************************)
\* bodies of the creates: with a city, with "city": null, without city
RoundTripBodies ==
    { [name |-> "n", email |-> e, phone |-> p, city |-> c] :
        e \in Emails, p \in Phones, c \in {"X", Null} }
    \cup CitylessBodies

\* the client receives the export response and keeps its csv_data
keep_export ==
    /\ req # Idle
    /\ req.op = "export"
    /\ req.variant = "flask"
    /\ exported' = [taken |-> TRUE, csv_data |-> resp.csv_data, customers |-> customers]
    /\ req' = Idle
    /\ resp' = Idle
    /\ sess' = NoSession
    /\ UNCHANGED <<customers, workers, lock, import_vars, menu_vars, thread_vars, words_vars>>

\* the client posts {"csv_data": <the kept text>, "has_header": true}
import_export ==
    /\ exported.taken
    /\ bulk_import(TRUE, TRUE, exported.csv_data, TRUE, TRUE)

NextRoundTrip ==
    \/ Sequential /\ (\E data \in RoundTripBodies : create_customer(TRUE, data)) /\ InBounds'
    \/ Sequential /\ \E id \in Ids : delete_customer(id)
    \/ Sequential /\ export_customers
    \/ keep_export
    \/ Sequential /\ import_export /\ InBounds'
    \/ Deliver

SpecRoundTrip == Init /\ [][NextRoundTrip]_vars

\* C26: export followed by bulk import is a round trip: the csv_data of an
\* API export, posted with has_header true to the bulk import on an empty
\* store, recreates one record per exported record with identical name,
\* email, phone and city; posted to the store it was exported from, it adds
\* no record and every row is reported as failed.
C26_ExportImportRoundTrip ==
    [][(/\ req'.op = "bulk"
        /\ exported.taken
        /\ req'.data.csv_data = exported.csv_data
        /\ req'.data.has_header) =>
          /\ DOMAIN customers = {} =>
               /\ Count(customers') = Count(exported.customers)
               /\ \A j \in DOMAIN exported.customers :
                    \E k \in DOMAIN customers' : customers'[k] = exported.customers[j]
          /\ customers = exported.customers =>
               /\ customers' = customers
               /\ resp'.success_count = 0
               /\ Len(resp'.failed_rows) = Count(customers)]_vars

\* C27: an update that supplies a record's own current email and phone, with
\* or without other fields, is not treated as a uniqueness conflict: it
\* succeeds, and applying the same update twice leaves the store in the same
\* state as applying it once.
C27_UpdateWithOwnKeys ==
    [][(/\ req'.op = "update"
        /\ req'.variant \in {"flask", "restx"}
        /\ req'.json
        /\ req'.id \in DOMAIN customers
        /\ {"email", "phone"} \subseteq DOMAIN req'.data
        /\ req'.data["email"] = customers[req'.id].email
        /\ req'.data["phone"] = customers[req'.id].phone
        /\ "name" \in DOMAIN req'.data => req'.data["name"] # "") =>
          /\ resp'.status = 200
          /\ DOMAIN customers' = DOMAIN customers
          /\ \A f \in DOMAIN req'.data : customers'[req'.id][f] = req'.data[f]
          /\ (\A f \in DOMAIN req'.data : customers[req'.id][f] = req'.data[f])
               => customers' = customers]_vars

\* an update with the record's own email and phone and a name has succeeded
\* next to a second record
C27_Witness ==
    /\ req.op = "update"
    /\ req.variant = "flask"
    /\ DOMAIN req.data = {"name", "email", "phone"}
    /\ resp.status = 200
    /\ Count(customers) = 2
    /\ req.id \in DOMAIN customers
    /\ customers[req.id].email = req.data["email"]
    /\ customers[req.id].phone = req.data["phone"]
    /\ customers[req.id].name = req.data["name"]

(***************************************************************************)
(* The threading demonstrations of day2/myworkspace: ex02.py starts two    *)
(* threads that print ten times each; ex03.py starts two threads that      *)
(* append the words of a sentence to a shared list inside `with lock`.     *)
(* `main` is the position of main(), `threads` the two worker threads,     *)
(* `mutex` the holder of lock (0 when it is free), `bucket` the list       *)
(* words.  A step of a thread is one iteration of its loop.                *)
(***************************************************************************)
s1 == "this is a quite large sentence to be broken into words by python"
s2 == "the quick brown fox jumed over the lazy dog"

\* sentence.split(' ')
split(sentence) ==
    CASE sentence = s1 ->
            <<"this", "is", "a", "quite", "large", "sentence", "to", "be", "broken",
              "into", "words", "by", "python">>
      [] sentence = s2 ->
            <<"the", "quick", "brown", "fox", "jumed", "over", "the", "lazy", "dog">>
      [] OTHER -> <<sentence>>

\* range(10) of function1
Iterations == 10

Demos == {"ex02", "ex03"}

\* Thread(target=...): the thread object before start()
NewThread(demo, t) ==
    [pc |-> "new", i |-> 0,
     words |-> IF demo = "ex03" THEN split(IF t = 1 THEN s1 ELSE s2) ELSE <<>>]

\* a lock that never refuses an acquire
lockedNever(holder) == FALSE

\* Lock.locked(): acquire() blocks while the lock is held
locked(holder) == holder # 0

\* a release that leaves the lock held
release_skipped(holder) == holder

\* Lock.release(), at the end of the with block
release(holder) == 0

\* python ex02.py / python ex03.py: main() creates the thread objects
launch(demo) ==
    /\ main.pc = "off"
    /\ main' = [demo |-> demo, pc |-> "start1"]
    /\ threads' = [t \in {1, 2} |-> NewThread(demo, t)]
    /\ bucket' = <<>>
    /\ mutex' = 0
    /\ UNCHANGED <<customers, req, resp, sess, workers, lock>>
    /\ UNCHANGED <<import_vars, menu_vars, words_vars, client_vars>>

\* t1.start(), then t2.start()
start(t) ==
    /\ main.pc = IF t = 1 THEN "start1" ELSE "start2"
    /\ threads' = [threads EXCEPT ![t] = [@ EXCEPT !.pc = "running"]]
    /\ main' = [main EXCEPT !.pc = IF t = 1 THEN "start2" ELSE "join1"]
    /\ UNCHANGED <<mutex, bucket>>
    /\ UNCHANGED <<customers, req, resp, sess, workers, lock>>
    /\ UNCHANGED <<import_vars, menu_vars, words_vars, client_vars>>

\* t1.join(), then t2.join(): main waits until the thread has finished
join(t) ==
    /\ main.pc = IF t = 1 THEN "join1" ELSE "join2"
    /\ threads[t].pc = "done"
    /\ main' = [main EXCEPT !.pc = IF t = 1 THEN "join2" ELSE "print"]
    /\ UNCHANGED <<threads, mutex, bucket>>
    /\ UNCHANGED <<customers, req, resp, sess, workers, lock>>
    /\ UNCHANGED <<import_vars, menu_vars, words_vars, client_vars>>

\* the last print of main()
final_print ==
    /\ main.pc = "print"
    /\ main' = [main EXCEPT !.pc = "end"]
    /\ UNCHANGED <<threads, mutex, bucket>>
    /\ UNCHANGED <<customers, req, resp, sess, workers, lock>>
    /\ UNCHANGED <<import_vars, menu_vars, words_vars, client_vars>>

\* ex02.py function1: print and sleep, ten times, then the thread ends
function1(t) ==
    /\ main.demo = "ex02"
    /\ threads[t].pc = "running"
    /\ threads' = [threads EXCEPT ![t] =
                      IF @.i < Iterations THEN [@ EXCEPT !.i = @ + 1]
                      ELSE [@ EXCEPT !.pc = "done"]]
    /\ UNCHANGED <<mutex, bucket, main>>
    /\ UNCHANGED <<customers, req, resp, sess, workers, lock>>
    /\ UNCHANGED <<import_vars, menu_vars, words_vars, client_vars>>

\* ex03.py text_to_words: `with lock:` acquires the lock when it is free
acquire(t) ==
    /\ main.demo = "ex03"
    /\ threads[t].pc = "running"
    /\ ~locked(mutex)
    /\ mutex' = t
    /\ threads' = [threads EXCEPT ![t] = [@ EXCEPT !.pc = "locked"]]
    /\ UNCHANGED <<bucket, main>>
    /\ UNCHANGED <<customers, req, resp, sess, workers, lock>>
    /\ UNCHANGED <<import_vars, menu_vars, words_vars, client_vars>>

\* bucket.append(each_word); time.sleep(0.5)
append(t) ==
    /\ main.demo = "ex03"
    /\ threads[t].pc = "locked"
    /\ threads[t].i < Len(threads[t].words)
    /\ bucket' = Append(bucket, threads[t].words[threads[t].i + 1])
    /\ threads' = [threads EXCEPT ![t] = [@ EXCEPT !.i = @ + 1]]
    /\ UNCHANGED <<mutex, main>>
    /\ UNCHANGED <<customers, req, resp, sess, workers, lock>>
    /\ UNCHANGED <<import_vars, menu_vars, words_vars, client_vars>>

\* the end of the with block releases the lock and the thread ends
leave(t) ==
    /\ main.demo = "ex03"
    /\ threads[t].pc = "locked"
    /\ threads[t].i = Len(threads[t].words)
    /\ mutex' = release(mutex)
    /\ threads' = [threads EXCEPT ![t] = [@ EXCEPT !.pc = "done"]]
    /\ UNCHANGED <<bucket, main>>
    /\ UNCHANGED <<customers, req, resp, sess, workers, lock>>
    /\ UNCHANGED <<import_vars, menu_vars, words_vars, client_vars>>

\* the steps of thread t
thread(t) == function1(t) \/ acquire(t) \/ append(t) \/ leave(t)

\* the steps of the main thread
main_thread == start(1) \/ start(2) \/ join(1) \/ join(2) \/ final_print

NextThreads ==
    \/ \E demo \in Demos : launch(demo)
    \/ \E t \in {1, 2} : start(t)
    \/ \E t \in {1, 2} : join(t)
    \/ final_print
    \/ \E t \in {1, 2} : function1(t)
    \/ \E t \in {1, 2} : acquire(t)
    \/ \E t \in {1, 2} : append(t)
    \/ \E t \in {1, 2} : leave(t)

SpecThreads == Init /\ [][NextThreads]_vars

\* the operating system schedules every thread that can run
SpecThreadsFair ==
    /\ SpecThreads
    /\ WF_vars(main_thread)
    /\ \A t \in {1, 2} : WF_vars(thread(t))

\* s is the beginning of r
IsPrefix(s, r) == Len(s) <= Len(r) /\ \A i \in 1..Len(s) : s[i] = r[i]

\* C28: in the lock demonstration at most one thread is inside the
\* word-appending loop at any time, and the shared list ends as all words of
\* one sentence, in order and contiguous, followed by all words of the
\* other: 22 words, never interleaved.
C28_LockSerialisesAppends ==
    main.demo = "ex03" =>
        /\ Cardinality({t \in DOMAIN threads : threads[t].pc = "locked"}) <= 1
        /\ \/ IsPrefix(bucket, split(s1) \o split(s2))
           \/ IsPrefix(bucket, split(s2) \o split(s1))
        /\ main.pc \in {"print", "end"} => Len(bucket) = 22

\* main has printed the list in which the second sentence comes first
C28_Witness ==
    /\ main.demo = "ex03"
    /\ main.pc = "end"
    /\ bucket = split(s2) \o split(s1)
    /\ Len(bucket) = 22

\* C29: in both threading demonstrations every worker thread eventually
\* finishes under fair scheduling (the lock is released on every path, so
\* there is no deadlock), and main reaches its final print only after both
\* workers have finished.
C29_ThreadsFinish ==
    /\ (main.pc = "start1") ~> (main.pc = "end")
    /\ \A t \in {1, 2} : (threads[t].pc = "running") ~> (threads[t].pc = "done")
    /\ [](main.pc \in {"print", "end"} =>
            \A t \in DOMAIN threads : threads[t].pc = "done")

\* main of ex02.py has printed its last line after both threads printed ten
\* times
C29_Witness ==
    /\ main.demo = "ex02"
    /\ main.pc = "end"
    /\ \A t \in DOMAIN threads : threads[t].pc = "done" /\ threads[t].i = Iterations

(***************************************************************************)
(* day1/myworkspace/myutils.py number_to_words.  A Python string is kept   *)
(* as the sequence of its pieces, each a word or one space: Str turns a    *)
(* literal into such a sequence (the empty string into the empty           *)
(* sequence), += is \o, and strip() removes the spaces at both ends.       *)
(***************************************************************************)
\* the largest of the consecutive small inputs
MaxSmall == 120

\* the inputs: every number up to MaxSmall, and numbers built from chosen
\* values of the crore, lakh, thousand, hundred and unit groups
Numbers ==
    (0..MaxSmall)
    \cup { c * 10000000 + l * 100000 + t * 1000 + h * 100 + u :
             c \in {0, 7, 99}, l \in {0, 20, 45}, t \in {0, 1, 99}, h \in {0, 9},
             u \in {0, 19, 21, 30, 99} }

Str(s) == IF s = "" THEN <<>> ELSE <<s>>

single_digits ==
    [d \in 0..20 |->
        CASE d = 0 -> "zero" [] d = 1 -> "one" [] d = 2 -> "two" [] d = 3 -> "three"
          [] d = 4 -> "four" [] d = 5 -> "five" [] d = 6 -> "six" [] d = 7 -> "seven"
          [] d = 8 -> "eight" [] d = 9 -> "nine" [] d = 10 -> "ten" [] d = 11 -> "eleven"
          [] d = 12 -> "twelve" [] d = 13 -> "thirteen" [] d = 14 -> "fourteen"
          [] d = 15 -> "fifteen" [] d = 16 -> "sixteen" [] d = 17 -> "seventeen"
          [] d = 18 -> "eighteen" [] d = 19 -> "nineteen" [] d = 20 -> "twenty"]

tens_multiples ==
    [t \in 2..9 |->
        CASE t = 2 -> "twenty" [] t = 3 -> "thirty" [] t = 4 -> "forty" [] t = 5 -> "fifty"
          [] t = 6 -> "sixty" [] t = 7 -> "seventy" [] t = 8 -> "eighty" [] t = 9 -> "ninety"]

\* place_values[place_index], place_index counted from 0
place_values(place_index) ==
    <<"", "hundred", "thousand", "lakh", "crore">>[place_index + 1]

\* the while loop: one digit for the hundreds place, two digits for every
\* other place, lowest place first
RECURSIVE number_parts(_, _)
number_parts(n, place_index) ==
    IF n = 0 THEN <<>>
    ELSE IF place_index = 1
    THEN <<n % 10>> \o number_parts(n \div 10, place_index + 1)
    ELSE <<n % 100>> \o number_parts(n \div 100, place_index + 1)

\* what one iteration of the for loop adds to words
part_words(current_part, place_index) ==
    IF current_part = 0 THEN <<>>
    ELSE IF place_index = 1 \/ current_part <= 20
    THEN Str(single_digits[current_part]) \o Str(" ")
         \o Str(place_values(place_index)) \o Str(" ")
    ELSE LET tens_place == current_part \div 10
             units_place == current_part % 10
         IN  Str(IF tens_place \in DOMAIN tens_multiples
                 THEN tens_multiples[tens_place] ELSE "") \o Str(" ")
             \o (IF units_place > 0 THEN Str(single_digits[units_place]) \o Str(" ")
                 ELSE <<>>)
             \o Str(place_values(place_index)) \o Str(" ")

\* for place_index in range(len(number_parts) - 1, -1, -1)
RECURSIVE all_words(_, _)
all_words(parts, place_index) ==
    IF place_index < 0 THEN <<>>
    ELSE part_words(parts[place_index + 1], place_index)
         \o all_words(parts, place_index - 1)

\* a strip() that returns the text as it is
strip_skipped(text) == text

\* str.strip(): the text without the spaces at its ends
RECURSIVE strip(_)
strip(text) ==
    IF text = <<>> THEN text
    ELSE IF Head(text) = " " THEN strip(Tail(text))
    ELSE IF text[Len(text)] = " " THEN strip(SubSeq(text, 1, Len(text) - 1))
    ELSE text

number_to_words(n) ==
    IF n = 0 THEN Str(single_digits[0])
    ELSE LET parts == number_parts(n, 0)
         IN  strip(all_words(parts, Len(parts) - 1))

\* the inputs are drawn before the function is called
InitWords ==
    /\ InitStore
    /\ number \in Numbers
    /\ words = <<>>

\* print(number_to_words(number))
convert ==
    /\ words = <<>>
    /\ words' = number_to_words(number)
    /\ UNCHANGED <<customers, req, resp, sess, workers, lock, number>>
    /\ UNCHANGED <<import_vars, menu_vars, thread_vars, client_vars>>

NextWords == convert

SpecWords == InitWords /\ [][NextWords]_vars

\* the name of a number from 1 to 99 as the list of its words
Below20 ==
    <<"one", "two", "three", "four", "five", "six", "seven", "eight", "nine", "ten",
      "eleven", "twelve", "thirteen", "fourteen", "fifteen", "sixteen", "seventeen",
      "eighteen", "nineteen">>
Decades == <<"ten", "twenty", "thirty", "forty", "fifty", "sixty", "seventy", "eighty", "ninety">>
GroupName(g) ==
    IF g < 20 THEN <<Below20[g]>>
    ELSE IF g % 10 = 0 THEN <<Decades[g \div 10]>>
    ELSE <<Decades[g \div 10], Below20[g % 10]>>

\* a non-zero group with its place name, a zero group left out
Group(g, place) ==
    IF g = 0 THEN <<>>
    ELSE GroupName(g) \o (IF place = "" THEN <<>> ELSE <<place>>)

\* the Indian-system reading of n: the groups from the right are two digits
\* of units, one of hundreds, two of thousands, two of lakhs, two of crores
Reading(n) ==
    IF n = 0 THEN <<"zero">>
    ELSE Group((n \div 10000000) % 100, "crore")
         \o Group((n \div 100000) % 100, "lakh")
         \o Group((n \div 1000) % 100, "thousand")
         \o Group((n \div 100) % 10, "hundred")
         \o Group(n % 100, "")

\* the words of a list joined by single spaces
RECURSIVE Joined(_)
Joined(ws) ==
    IF Len(ws) <= 1 THEN ws
    ELSE <<Head(ws), " ">> \o Joined(Tail(ws))

\* C30: for every integer n from 0 to 999,999,999, number_to_words(n)
\* terminates and returns the Indian-system reading of n: the non-zero
\* groups with their place names, zero groups left out, the words separated
\* by single spaces with no space at either end, 0 read as 'zero'; distinct
\* numbers get distinct readings.
C30_NumberToWords ==
    words # <<>> =>
        /\ words = Joined(Reading(number))
        /\ Head(words) # " " /\ words[Len(words)] # " "
        /\ \A i \in 1..(Len(words) - 1) : ~(words[i] = " " /\ words[i + 1] = " ")
        /\ \A m \in Numbers : m # number => number_to_words(m) # words

\* 99,45,99,999 has been read with all five groups
C30_Witness ==
    /\ number = 994599999
    /\ words = <<"ninety", " ", "nine", " ", "crore", " ", "forty", " ", "five", " ",
                 "lakh", " ", "ninety", " ", "nine", " ", "thousand", " ", "nine", " ",
                 "hundred", " ", "ninety", " ", "nine">>

====
